---------------------------- MODULE Spec2Model ----------------------------
(***************************************************************************)
(* A model of win_acapture_rs: the AudioClient entry points               *)
(* (audio_client.rs), the stream lifecycle and the capture and playback   *)
(* pump threads (audio_stream.rs).                                        *)
(*                                                                         *)
(* One AudioClient is followed from construction through one entry point, *)
(* start(), the pump thread and the drop of the AudioStream.  Platform     *)
(* calls are steps whose outcome (success, failure, reported counts) is    *)
(* chosen nondeterministically.                                            *)
(***************************************************************************)
EXTENDS Integers, Sequences, FiniteSets, TLC

(***************************************************************************)
(* Bounds of the model.                                                    *)
(***************************************************************************)
\* Largest frame count a platform call reports (packet size, buffer, padding).
MaxFrames == 2
\* Number of data-callback invocations whose bytes the observer accumulates.
MaxCalls == 2

(***************************************************************************)
(* Platform constants used by the code.                                    *)
(***************************************************************************)
WAIT_OBJECT_0 == 0
\* WAIT_FAILED is 0xFFFFFFFF; as a 32-bit two's-complement integer, -1.
WAIT_FAILED == -1
AUDCLNT_BUFFERFLAGS_SILENT == 2
WAVE_FORMAT_PCM == 1
WAVE_FORMAT_IEEE_FLOAT == 3
WAVE_FORMAT_EXTENSIBLE == 65534
\* size_of::<WAVEFORMATEXTENSIBLE>() - size_of::<WAVEFORMATEX>()
ExtensibleExtraSize == 22
U16 == 65536
NanosPerSec == 1000000000

(***************************************************************************)
(* sample_format.rs                                                        *)
(***************************************************************************)
FormatTag == {"WaveFormatPcm", "WaveFormatIeeeFloat", "WaveFormatExtensible", "Unsupported"}

\* SampleFormat::new
SampleFormat(tag, channels, rate, bits) ==
    [format_tag |-> tag, channels |-> channels, sample_rate |-> rate, bits_per_sample |-> bits]

\* SampleFormat::default
DefaultFormat == SampleFormat("WaveFormatIeeeFloat", 2, 44100, 32)

\* Option<SampleFormat>::None, and the value standing for "no format".
NoFormat == [format_tag |-> "None", channels |-> 0, sample_rate |-> 0, bits_per_sample |-> 0]

\* SampleFormat::block_align: u16 arithmetic, channels * bits_per_sample / 8.
block_align(f) == ((f.channels * f.bits_per_sample) % U16) \div 8

\* FormatTag::to_wave_format_tag
to_wave_format_tag(tag) ==
    CASE tag = "WaveFormatPcm" -> WAVE_FORMAT_PCM
      [] tag = "WaveFormatIeeeFloat" -> WAVE_FORMAT_IEEE_FLOAT
      [] tag = "WaveFormatExtensible" -> WAVE_FORMAT_EXTENSIBLE
      [] OTHER -> 0

\* impl From<u16> for FormatTag
FormatTagFrom(w) ==
    CASE w = WAVE_FORMAT_PCM -> "WaveFormatPcm"
      [] w = WAVE_FORMAT_IEEE_FLOAT -> "WaveFormatIeeeFloat"
      [] w = WAVE_FORMAT_EXTENSIBLE -> "WaveFormatExtensible"
      [] OTHER -> "Unsupported"

\* impl From<SampleFormat> for WAVEFORMATEX.  cbSize keeps WAVEFORMATEX::default()'s
\* 0; SubFormat is not part of a WAVEFORMATEX ("none").
ToWaveFormatEx(f) ==
    [wFormatTag |-> to_wave_format_tag(f.format_tag),
     nChannels |-> f.channels,
     nSamplesPerSec |-> f.sample_rate,
     wBitsPerSample |-> f.bits_per_sample,
     nBlockAlign |-> (f.channels * (f.bits_per_sample \div 8)) % U16,
     cbSize |-> 0,
     SubFormat |-> "none"]

\* SampleFormat::from_wave_format_ex panics on an extensible tag whose cbSize is
\* too small.
from_wave_format_ex_panics(w) ==
    /\ FormatTagFrom(w.wFormatTag) = "WaveFormatExtensible"
    /\ w.cbSize < ExtensibleExtraSize

\* SampleFormat::from_wave_format_ex (where it does not panic).
from_wave_format_ex(w) ==
    LET tag0 == FormatTagFrom(w.wFormatTag)
        tag == IF tag0 = "WaveFormatExtensible"
               THEN CASE w.SubFormat = "KSDATAFORMAT_SUBTYPE_PCM" -> "WaveFormatPcm"
                      [] w.SubFormat = "KSDATAFORMAT_SUBTYPE_IEEE_FLOAT" -> "WaveFormatIeeeFloat"
                      [] OTHER -> "Unsupported"
               ELSE tag0
    IN SampleFormat(tag, w.nChannels, w.nSamplesPerSec, w.wBitsPerSample)

\* The exact product of a u32 a (below 2^31 here) and a u16 b, in 16-bit limbs:
\* top * 2^32 + hi * 2^16 + lo.  (The model's integers are 32 bits wide, so the
\* product is built from partial products below 2^25.)
WideMul(a, b) ==
    LET al == a % U16
        ah == a \div U16
        bl == b % 256
        bh == b \div 256
        p1 == al * bh
        low == al * bl + (p1 % 256) * 256
        q1 == ah * bh
        mid == ah * bl + (q1 % 256) * 256 + low \div U16 + p1 \div 256
    IN [top |-> mid \div U16 + q1 \div 256, hi |-> mid % U16, lo |-> low % U16]

\* SampleFormat::avg_bytes_per_sec: u32 arithmetic, sample_rate * block_align,
\* the bits above the 32nd lost; in 16-bit limbs, hi * 2^16 + lo.
avg_bytes_per_sec(f) ==
    LET w == WideMul(f.sample_rate, block_align(f))
    IN [hi |-> w.hi, lo |-> w.lo]

\* into() and from_wave_format_ex on its result: the format that comes back,
\* or the panic of from_wave_format_ex.
RoundTrip(f) ==
    LET w == ToWaveFormatEx(f)
    IN IF from_wave_format_ex_panics(w)
       THEN [panicked |-> TRUE, format |-> NoFormat]
       ELSE [panicked |-> FALSE, format |-> from_wave_format_ex(w)]

\* The formats a caller passes to set_format in this model.
UserFormats ==
    {SampleFormat("WaveFormatPcm", 2, 48000, 16),
     SampleFormat("WaveFormatExtensible", 1, 48000, 8),
     SampleFormat("WaveFormatPcm", 1, 48000, 4)}

\* The mix formats the platform's GetMixFormat reports in this model.
MixFormats ==
    {[wFormatTag |-> WAVE_FORMAT_EXTENSIBLE, nChannels |-> 2, nSamplesPerSec |-> 48000,
      wBitsPerSample |-> 32, nBlockAlign |-> 8, cbSize |-> ExtensibleExtraSize,
      SubFormat |-> "KSDATAFORMAT_SUBTYPE_IEEE_FLOAT"]}


\* What the dangling WAVEFORMATEX pointer of start_recording_device may hold
\* besides the converted format when Initialize reads it.
GarbageWaveFormat ==
    [wFormatTag |-> 0, nChannels |-> 0, nSamplesPerSec |-> 0, wBitsPerSample |-> 0,
     nBlockAlign |-> 0, cbSize |-> 0, SubFormat |-> "none"]

NoWaveFormat ==
    [wFormatTag |-> 0, nChannels |-> 0, nSamplesPerSec |-> 0, wBitsPerSample |-> 0,
     nBlockAlign |-> 0, cbSize |-> 0, SubFormat |-> "unset"]

(***************************************************************************)
(* State.                                                                  *)
(***************************************************************************)
VARIABLES
    format,              \* AudioClient.format: NoFormat (None) or Some format
    mainPc,              \* the caller: new, activating, configured, running, joining, stopped, failed
    entry,               \* the entry point called: none, process, device, loopback, playback
    devArg,              \* its dev argument: None, or a device by its is_playback flag
    setupFault,          \* the setup-time platform call that fails in this call (none: no call fails)
    callResult,          \* what the entry point returned: none (not yet), Ok, an error, panic
    activationRequested, \* an activation was requested from the platform
    activateEvent,       \* get_audio_client's completion event: none, unsignaled, signaled
    streamFormat,        \* the format the AudioStreamConfig and the run context carry
    clientFormat,        \* the WAVEFORMATEX the client was initialized with
    returnedFormat,      \* the format start_playback_device returns beside the config
    stopHandle,          \* the stream's stop event: none, open, closed
    stopSignaled,        \* whether the stop event is signaled
    startResult,         \* what start() returned: none, Ok, FailedToCreateThread
    threadsSpawned,      \* pump threads spawned for this stream
    pumpPc,              \* the pump thread's position (none: no thread)
    hEvent,              \* the pump's data-ready event: none, open, closed
    hEventCloses,        \* how many times that event was closed
    dataSignaled,        \* whether the data-ready event is signaled
    eventRegistered,     \* SetEventHandle succeeded
    clientState,         \* the IAudioClient: initialized, started, stopped, reset
    blockAlign,          \* the pump's local block_align
    bufferSize,          \* the playback pump's local buffer_size
    frames,              \* frames_available (capture) / available_frames (playback)
    bufFrames,           \* frames of the buffer the platform handed out last
    bufferHeld,          \* a buffer is acquired and not yet released
    isActive,            \* the playback callback's last return value
    pumpErr,             \* the Err the pump function returned (none: none so far)
    pumpFaults,          \* the pump's platform calls that failed
    errLog,              \* the errors the error callback was invoked with
    dataCalls,           \* data-callback invocations (counted up to MaxCalls)
    lastFrames,          \* frames of the buffer of the last data-callback invocation
    lastBytes,           \* length in bytes of the view of the last invocation
    totalBytes,          \* bytes over the first MaxCalls invocations
    everActive,          \* some playback callback invocation returned true
    relCount,            \* buffers released (counted up to MaxCalls)
    lastRelFrames,       \* frames of the last release
    lastRelFlags,        \* flags of the last playback release
    lastRelActive,       \* what the callback returned for the buffer released last
    nonSilentRelease     \* some playback buffer was released without the silence flag

setupVars == <<format, mainPc, entry, devArg, setupFault, callResult, activationRequested,
               activateEvent, streamFormat, clientFormat, returnedFormat, startResult,
               threadsSpawned>>
eventVars == <<stopHandle, stopSignaled, hEvent, hEventCloses, dataSignaled, eventRegistered>>
pumpVars == <<pumpPc, clientState, blockAlign, bufferSize, frames, bufFrames, bufferHeld,
              isActive, pumpErr, pumpFaults>>
logVars == <<errLog, dataCalls, lastFrames, lastBytes, totalBytes, everActive, relCount,
             lastRelFrames, lastRelFlags, lastRelActive, nonSilentRelease>>

VARIABLES
    activateResult,      \* the HRESULT GetActivateResult wrote to activate_result (none: not called)
    gotClient            \* get_audio_client returned Ok(audio_client)

activationVars == <<activateResult, gotClient>>

VARIABLES
    padding              \* the playback pump's local padding (GetCurrentPadding)

\* The variables of the stream model.
streamVars == <<setupVars, eventVars, pumpVars, logVars, activationVars, padding>>

(***************************************************************************)
(* State of a Notifications object (notifications.rs) and of its           *)
(* session-notification worker thread (session_notification.rs).           *)
(***************************************************************************)
\* Calls made on one Notifications object before it is dropped.
MaxOps == 3

\* Session ids: the name of SessionX does not convert (to_string fails).
Sessions == {"SessionA", "SessionB", "SessionX"}
UnreadableNames == {"SessionX"}

\* Devices, by device id.
NotifDevices == {"DevA", "DevB"}

VARIABLES
    nPc,                 \* the owner's thread: idle, await_ready, await_register,
                         \* await_unregister, drop_stop, drop_join, dropped, panicked
    nOps,                \* calls made so far (counted up to MaxOps)
    nResult,             \* what the last call returned: none, Ok, an error, panic
    pendingCmd,          \* the command the call in progress sends
    deviceClient,        \* _device_notification_client is Some
    endpointCallbacks,   \* endpoint callbacks registered with the device enumerator
    sessionEventClient,  \* _session_event_client: per session id, the sinks it holds
    eventSinks,          \* per session id, the event sinks registered with the platform
    evCall,              \* the last register_session_event call, as observed
    sessionNotification, \* _session_notification: None or Some
    workerPc,            \* the worker thread: none, init, recv, exiting, exited, panicked
    notifications,       \* the worker's table: the device ids it holds an entry for
    sessionSinks,        \* per device, the session-notification sinks registered with the platform
    cmdQ,                \* the command channel
    respQ,               \* the response channel
    wLast,               \* the command the worker handled last, as observed
    errorsSent,          \* Error responses the worker sent
    workerFault          \* the platform call that failed in the worker (none: none)

notifVars == <<nPc, nOps, nResult, pendingCmd, deviceClient, endpointCallbacks,
               sessionEventClient, eventSinks, evCall, sessionNotification, workerPc,
               notifications, sessionSinks, cmdQ, respQ, wLast, errorsSent, workerFault>>

NoCmd == [op |-> "none", dev |-> "none"]
NoEvCall == [session |-> "none", wasRegistered |-> FALSE, result |-> "none",
             sinksAdded |-> 0, registryChanged |-> FALSE]
NoHandled == [cmd |-> "none", dev |-> "none", responses |-> 0, table |-> {},
              unregisterCalled |-> {}, response |-> "none"]

\* Notifications::new, and no worker thread yet.
NotifInit ==
    /\ nPc = "idle"
    /\ nOps = 0
    /\ nResult = "none"
    /\ pendingCmd = NoCmd
    /\ deviceClient = FALSE
    /\ endpointCallbacks = 0
    /\ sessionEventClient = [s \in Sessions |-> 0]
    /\ eventSinks = [s \in Sessions |-> 0]
    /\ evCall = NoEvCall
    /\ sessionNotification = "None"
    /\ workerPc = "none"
    /\ notifications = {}
    /\ sessionSinks = [d \in NotifDevices |-> 0]
    /\ cmdQ = <<>>
    /\ respQ = <<>>
    /\ wLast = NoHandled
    /\ errorsSent = 0
    /\ workerFault = "none"

(***************************************************************************)
(* State of the application of the functions of sample_format.rs to one    *)
(* format.                                                                 *)
(***************************************************************************)
\* The formats the functions are applied to: every tag, with channel counts,
\* sample rates and sample widths from the usual ones up to the largest the
\* model's integers can multiply.
FmtInputs ==
    {SampleFormat(t, c, r, b) : t \in FormatTag, c \in {1, 2, 4096, 32767},
                                r \in {44100, 48000, 2147483647},
                                b \in {8, 12, 16, 32, 65535}}

VARIABLES
    fmtIn,               \* the SampleFormat the functions are applied to
    rtResult,            \* what the round trip through WAVEFORMATEX gave (NoRoundTrip: not run)
    alignResult,         \* what block_align returned (-1: not called)
    avgResult            \* what avg_bytes_per_sec returned (NoAvg: not called)

fmtVars == <<fmtIn, rtResult, alignResult, avgResult>>

NoRoundTrip == [panicked |-> FALSE, format |-> NoFormat]
NoAvg == [hi |-> -1, lo |-> -1]

\* No format under test.
FmtIdle ==
    /\ fmtIn = NoFormat
    /\ rtResult = NoRoundTrip
    /\ alignResult = -1
    /\ avgResult = NoAvg

(***************************************************************************)
(* State of the platform-facing sinks of notifications.rs (the per-session *)
(* event sink and the device-change sink) and of the conversions of        *)
(* platform discriminants (event_args.rs, manager.rs).                     *)
(***************************************************************************)
VARIABLES
    sinkCall,            \* the last platform callback on a session event sink, as observed
    devSinkCall,         \* the last platform callback on the device-change sink, as observed
    conv                 \* per conversion of a platform discriminant, its last application

sinkVars == <<sinkCall, devSinkCall, conv>>

\* No callback of the platform and no conversion so far.
SinkIdle ==
    /\ sinkCall = [kind |-> "none", session |-> "none", args |-> "none", delivered |-> <<>>,
                   ret |-> "none"]
    /\ devSinkCall = [kind |-> "none", delivered |-> <<>>, ret |-> "none"]
    /\ conv = [fn \in {"StateChangedArgs::get_state", "SessionDisconnectedArgs::get_reason",
                        "DeviceState::from", "AudioSessionState::from"} |->
                   [input |-> 0, out |-> "none"]]

(***************************************************************************)
(* State of the application of StreamInstant::sub and StreamInstant::add   *)
(* (stream_instant.rs) to one instant and one duration.                    *)
(***************************************************************************)
VARIABLES
    instT,               \* the StreamInstant t
    instD,               \* the Duration d
    subResult,           \* what t.sub(d) returned, in a sequence (empty: not called)
    addResult            \* what t.add(d) returned, in a sequence (empty: not called)

instVars == <<instT, instD, subResult, addResult>>

\* StreamInstant::new(0, 0), Duration::ZERO, nothing called.
InstIdle ==
    /\ instT = [secs |-> 0, nanos |-> 0]
    /\ instD = [secs |-> 0, nanos |-> 0]
    /\ subResult = <<>>
    /\ addResult = <<>>

\* The variables of the other parts of the model.
(***************************************************************************)
(* State of one legacy AudioCapture (audio_capture.rs) and of the pump     *)
(* threads it spawns, thread i by the i-th start call.                     *)
(***************************************************************************)
\* Start calls made on one AudioCapture.
MaxStarts == 3

VARIABLES
    activate_completed,  \* _activate_completed, shared with the ActivateHandler
    lPc,                 \* the caller: idle, activating, joining, panicked
    lStarts,             \* start calls made so far (counted up to MaxStarts)
    lResult,             \* how the last call ended: none, returned, a panic
    lThread,             \* _thread: 0 (None) or the thread whose handle it holds
    lStopHandle,         \* _thread_stop_handle: 0 (None) or the thread whose stop event it is
    lThreads,            \* per thread: none (not spawned), running, ended
    lStopSignaled        \* the threads whose stop event is signaled

legacyVars == <<activate_completed, lPc, lStarts, lResult, lThread, lStopHandle, lThreads,
                lStopSignaled>>

\* AudioCapture::new
LegacyIdle ==
    /\ activate_completed = FALSE
    /\ lPc = "idle"
    /\ lStarts = 0
    /\ lResult = "none"
    /\ lThread = 0
    /\ lStopHandle = 0
    /\ lThreads = [i \in 1..MaxStarts |-> "none"]
    /\ lStopSignaled = {}

otherVars == <<notifVars, fmtVars, sinkVars, instVars, legacyVars>>

vars == <<streamVars, otherVars>>

\* AudioClient::new and no stream yet.
StreamInit ==
    /\ format = NoFormat
    /\ mainPc = "new"
    /\ entry = "none"
    /\ devArg = "None"
    /\ setupFault = "none"
    /\ callResult = "none"
    /\ activationRequested = FALSE
    /\ activateEvent = "none"
    /\ streamFormat = NoFormat
    /\ clientFormat = NoWaveFormat
    /\ returnedFormat = NoFormat
    /\ stopHandle = "none"
    /\ stopSignaled = FALSE
    /\ startResult = "none"
    /\ threadsSpawned = 0
    /\ pumpPc = "none"
    /\ hEvent = "none"
    /\ hEventCloses = 0
    /\ dataSignaled = FALSE
    /\ eventRegistered = FALSE
    /\ clientState = "none"
    /\ blockAlign = 0
    /\ bufferSize = 0
    /\ frames = 0
    /\ bufFrames = 0
    /\ bufferHeld = FALSE
    /\ isActive = FALSE
    /\ pumpErr = "none"
    /\ pumpFaults = {}
    /\ errLog = <<>>
    /\ dataCalls = 0
    /\ lastFrames = 0
    /\ lastBytes = 0
    /\ totalBytes = 0
    /\ everActive = FALSE
    /\ relCount = 0
    /\ lastRelFrames = 0
    /\ lastRelFlags = 0
    /\ lastRelActive = FALSE
    /\ nonSilentRelease = FALSE
    /\ activateResult = "none"
    /\ gotClient = FALSE
    /\ padding = 0

\* AudioClient::new, Notifications::new.
Init == StreamInit /\ NotifInit /\ FmtIdle /\ SinkIdle /\ InstIdle /\ LegacyIdle

(***************************************************************************)
(* audio_client.rs: the entry points.                                      *)
(***************************************************************************)
\* AudioClient::set_format
set_format(f) ==
    /\ mainPc = "new"
    /\ format # f
    /\ format' = f
    /\ UNCHANGED <<mainPc, entry, devArg, setupFault, callResult, activationRequested,
                   activateEvent, streamFormat, clientFormat, returnedFormat, startResult,
                   threadsSpawned>>
    /\ UNCHANGED <<eventVars, pumpVars, logVars>>
    /\ UNCHANGED activationVars
    /\ UNCHANGED otherVars
    /\ UNCHANGED padding

\* self.format.unwrap_or_default()
FormatOrDefault(f) == IF f = NoFormat THEN DefaultFormat ELSE f

\* The platform calls of get_audio_client, in order.  NoInterface stands for
\* GetActivateResult handing back no interface, CastClient for the cast.
GetAudioClientSteps ==
    <<"CreateActivateEvent", "ActivateAudioInterfaceAsync", "WaitActivate",
      "GetActivateResult", "NoInterface", "CastClient">>

\* activate_device_or_default
ActivateSteps(dev) ==
    IF dev = "None" THEN <<"StringFromIID">> \o GetAudioClientSteps ELSE <<"DeviceActivate">>

\* create_capture_stream: GetService, CreateEventW, and GetMixFormat when no
\* format is passed.
CaptureStreamSteps(fmt) ==
    <<"GetService", "CreateStopEvent">> \o
        (IF fmt = NoFormat THEN <<"StreamGetMixFormat">> ELSE <<>>)

\* create_playback_stream
PlaybackStreamSteps == <<"GetService", "CreateStopEvent">>

\* The fallible steps of an entry point after its direction check, in the
\* order the code takes them.  FromWaveFormatEx is from_wave_format_ex on the
\* caller's own format, which fails (panics) exactly on an extensible tag.
SetupSteps(ep, dev, fmt) ==
    CASE ep = "process" ->
            GetAudioClientSteps \o <<"Initialize", "FromWaveFormatEx">> \o
                CaptureStreamSteps(FormatOrDefault(fmt))
      [] ep = "device" ->
            ActivateSteps(dev) \o (IF fmt = NoFormat THEN <<"GetMixFormat">> ELSE <<>>) \o
                <<"Initialize">> \o CaptureStreamSteps(fmt)
      [] ep = "loopback" ->
            ActivateSteps(dev) \o <<"GetMixFormat", "Initialize">> \o
                CaptureStreamSteps(FormatOrDefault(fmt))
      [] ep = "playback" ->
            ActivateSteps(dev) \o <<"GetMixFormat", "Initialize">> \o PlaybackStreamSteps

\* What the failure of a setup step makes the entry point do: the error it
\* returns, or panic (expect).
FaultError(step) ==
    CASE step = "CreateActivateEvent" -> "panic"
      [] step = "ActivateAudioInterfaceAsync" -> "panic"
      [] step = "StringFromIID" -> "panic"
      [] step = "FromWaveFormatEx" -> "panic"
      [] step = "WaitActivate" -> "WaitFailed"
      [] step = "GetActivateResult" -> "FailedToStartAudioClient"
      [] step = "NoInterface" -> "FailedGettingActivationResult"
      [] step = "CastClient" -> "FailedToStartAudioClient"
      [] step = "DeviceActivate" -> "FailedToStartAudioClient"
      [] step = "GetMixFormat" -> "FailedToGetMixFormat"
      [] step = "StreamGetMixFormat" -> "FailedToGetMixFormat"
      [] step = "Initialize" -> "FailedToStartAudioClient"
      [] step = "GetService" -> "FailedToStartAudioClient"
      [] step = "CreateStopEvent" -> "EventCreationError"
      [] OTHER -> "Ok"

Pos(steps, s) == CHOOSE i \in 1..Len(steps) : steps[i] = s
StepsOf(steps) == {steps[i] : i \in 1..Len(steps)}

\* The step at which the call ends early: the injected fault, or the panic of
\* from_wave_format_ex on the caller's format when the call gets that far.
EffectiveFault(ep, fmt, fault) ==
    LET steps == SetupSteps(ep, "None", fmt)
        fmtPanics == /\ ep = "process"
                     /\ from_wave_format_ex_panics(ToWaveFormatEx(FormatOrDefault(fmt)))
    IN IF fmtPanics /\ (fault = "none" \/ Pos(steps, fault) > Pos(steps, "FromWaveFormatEx"))
       THEN "FromWaveFormatEx"
       ELSE fault

\* Step s was called in a call that ends at fault (none: runs to the end).
Called(steps, fault, s) ==
    /\ s \in StepsOf(steps)
    /\ fault = "none" \/ Pos(steps, s) <= Pos(steps, fault)

\* Step s was called and succeeded.
Succeeded(steps, fault, s) ==
    /\ s \in StepsOf(steps)
    /\ fault = "none" \/ Pos(steps, s) < Pos(steps, fault)

\* A faulty variant of DirectionError: the loopback entry point tests
\* dev.is_playback without the negation.
DirectionErrorLoopbackInverted(ep, dev) ==
    CASE ep = "device" /\ dev = "playback" -> "NotInputDevice"
      [] ep = "loopback" /\ dev = "playback" -> "NotPlaybackDevice"
      [] ep = "playback" /\ dev = "capture" -> "NotPlaybackDevice"
      [] OTHER -> "Ok"

\* The direction checks that open the device-taking entry points.
DirectionError(ep, dev) ==
    CASE ep = "device" /\ dev = "playback" -> "NotInputDevice"
      [] ep = "loopback" /\ dev = "capture" -> "NotPlaybackDevice"
      [] ep = "playback" /\ dev = "capture" -> "NotPlaybackDevice"
      [] OTHER -> "Ok"

\* The WAVEFORMATEX Initialize may read.  start_recording_device passes a
\* pointer to a temporary that is gone by then: the converted format, or garbage.
ClientFormatChoices(ep, fmt, mix) ==
    CASE ep = "process" -> {ToWaveFormatEx(FormatOrDefault(fmt))}
      [] ep = "device" -> IF fmt = NoFormat THEN {mix}
                          ELSE {ToWaveFormatEx(fmt), GarbageWaveFormat}
      [] OTHER -> {mix}

\* The format handed to create_capture_stream / create_playback_stream.
StreamFormatOf(ep, fmt, mix) ==
    CASE ep = "process" -> from_wave_format_ex(ToWaveFormatEx(FormatOrDefault(fmt)))
      [] ep = "device" -> IF fmt = NoFormat THEN from_wave_format_ex(mix) ELSE fmt
      [] OTHER -> FormatOrDefault(fmt)

\* The entry point runs from its activation (done or failed) to its return:
\* fault is the step that ends it early (none: it returns Ok).
FinishSetup(ep, dev, fault) ==
    LET steps == SetupSteps(ep, dev, format)
    IN \E mix \in MixFormats : \E cf \in ClientFormatChoices(ep, format, mix) :
        /\ callResult' = (IF fault = "none" THEN "Ok" ELSE FaultError(fault))
        /\ mainPc' = (IF fault = "none" THEN "configured" ELSE "failed")
        /\ clientFormat' = (IF Succeeded(steps, fault, "Initialize") THEN cf ELSE NoWaveFormat)
        /\ clientState' = (IF Succeeded(steps, fault, "Initialize") THEN "initialized" ELSE "none")
        /\ stopHandle' = (IF Succeeded(steps, fault, "CreateStopEvent") THEN "open" ELSE "none")
        /\ streamFormat' = (IF fault = "none" THEN StreamFormatOf(ep, format, mix) ELSE NoFormat)
        /\ returnedFormat' = (IF fault = "none" /\ ep = "playback"
                              THEN from_wave_format_ex(mix) ELSE NoFormat)

\* The steps of get_audio_client before its wait.
BeforeWait == {"StringFromIID", "CreateActivateEvent", "ActivateAudioInterfaceAsync"}

\* An entry point is called: the direction check, then the activation.  With a
\* device the activation is synchronous and the call runs to its return; with
\* get_audio_client the call issues the request and blocks in its wait.
EntryCall(ep, dev, injected) ==
    LET steps == SetupSteps(ep, dev, format)
        fault == EffectiveFault(ep, format, injected)
    IN
    /\ mainPc = "new"
    /\ entry' = ep
    /\ devArg' = dev
    /\ IF DirectionError(ep, dev) # "Ok"
       THEN /\ injected = "none"
            /\ callResult' = DirectionError(ep, dev)
            /\ mainPc' = "failed"
            /\ UNCHANGED <<setupFault, activationRequested, activateEvent, streamFormat,
                           clientFormat, returnedFormat, stopHandle, clientState>>
       ELSE /\ injected \in (StepsOf(steps) \ {"FromWaveFormatEx"}) \cup {"none"}
            /\ setupFault' = fault
            /\ activationRequested' =
                   (Called(steps, fault, "ActivateAudioInterfaceAsync")
                       \/ Called(steps, fault, "DeviceActivate"))
            /\ IF dev # "None" /\ ep # "process"
               THEN /\ FinishSetup(ep, dev, fault)
                    /\ UNCHANGED activateEvent
               ELSE IF fault \in BeforeWait
               THEN /\ callResult' = FaultError(fault)
                    /\ mainPc' = "failed"
                    /\ UNCHANGED <<activateEvent, streamFormat, clientFormat, returnedFormat,
                                   stopHandle, clientState>>
               ELSE /\ mainPc' = "activating"
                    /\ activateEvent' = "unsignaled"
                    /\ UNCHANGED <<callResult, streamFormat, clientFormat, returnedFormat,
                                   stopHandle, clientState>>
    /\ UNCHANGED <<format, startResult, threadsSpawned>>
    /\ UNCHANGED <<stopSignaled, hEvent, hEventCloses, dataSignaled, eventRegistered>>
    /\ UNCHANGED <<pumpPc, blockAlign, bufferSize, frames, bufFrames, bufferHeld, isActive,
                   pumpErr, pumpFaults>>
    /\ UNCHANGED logVars
    /\ UNCHANGED activationVars
    /\ UNCHANGED otherVars
    /\ UNCHANGED padding

Devices == {"None", "capture", "playback"}

\* AudioClient::start_recording_process
start_recording_process ==
    \E injected \in StepsOf(SetupSteps("process", "None", format)) \cup {"none"} :
        EntryCall("process", "None", injected)

\* AudioClient::start_recording_device
start_recording_device ==
    \E dev \in Devices :
        \E injected \in StepsOf(SetupSteps("device", dev, format)) \cup {"none"} :
            EntryCall("device", dev, injected)

\* AudioClient::start_recording_loopback_device
start_recording_loopback_device ==
    \E dev \in Devices :
        \E injected \in StepsOf(SetupSteps("loopback", dev, format)) \cup {"none"} :
            EntryCall("loopback", dev, injected)

\* AudioClient::start_playback_device
start_playback_device ==
    \E dev \in Devices :
        \E injected \in StepsOf(SetupSteps("playback", dev, format)) \cup {"none"} :
            EntryCall("playback", dev, injected)

\* ActivateHandler::ActivateCompleted: the platform reports the activation done
\* and the handler signals the event.
ActivateCompleted ==
    /\ mainPc = "activating"
    /\ activateEvent = "unsignaled"
    /\ activateEvent' = "signaled"
    /\ UNCHANGED <<format, mainPc, entry, devArg, setupFault, callResult, activationRequested,
                   streamFormat, clientFormat, returnedFormat, startResult, threadsSpawned>>
    /\ UNCHANGED <<eventVars, pumpVars, logVars>>
    /\ UNCHANGED activationVars
    /\ UNCHANGED otherVars
    /\ UNCHANGED padding

\* A faulty variant of get_wait_error: every result but WAIT_OBJECT_0 is taken
\* for a failed wait.
get_wait_error_nonzero_fails(wait_event) ==
    IF wait_event # WAIT_OBJECT_0
    THEN [ok |-> FALSE, val |-> "WaitFailed"]
    ELSE [ok |-> TRUE, val |-> wait_event]

\* get_wait_error
get_wait_error(wait_event) ==
    IF wait_event = WAIT_FAILED
    THEN [ok |-> FALSE, val |-> "WaitFailed"]
    ELSE [ok |-> TRUE, val |-> wait_event]

\* The HRESULTs the platform reports as the result of an activation.
ActivateResults == {"S_OK", "E_FAIL"}

\* get_audio_client after its wait: res.GetActivateResult writes activate_result
\* and activated_interface; the code goes on from the call's own result and from
\* activated_interface (NoInterface: None; CastClient: the cast fails) and never
\* reads activate_result.  The platform's two outputs are independent here.
GetActivateResult(steps, fault) ==
    \E hr \in ActivateResults :
        /\ activateResult' = (IF Succeeded(steps, fault, "GetActivateResult") THEN hr ELSE "none")
        /\ gotClient' = Succeeded(steps, fault, "CastClient")

\* get_audio_client from its wait on: WaitForSingleObject returns (signaled,
\* or WAIT_FAILED), then the rest of the entry point runs to its return.
get_audio_client_wait ==
    /\ mainPc = "activating"
    /\ \E w \in {WAIT_OBJECT_0, WAIT_FAILED} :
        /\ (w = WAIT_FAILED) = (setupFault = "WaitActivate")
        /\ w = WAIT_OBJECT_0 => activateEvent = "signaled"
        /\ activateEvent' = (IF w = WAIT_OBJECT_0 THEN "unsignaled" ELSE activateEvent)
    /\ GetActivateResult(SetupSteps(entry, devArg, format), setupFault)
    /\ FinishSetup(entry, devArg, setupFault)
    /\ UNCHANGED <<format, entry, devArg, setupFault, activationRequested, startResult,
                   threadsSpawned>>
    /\ UNCHANGED <<stopSignaled, hEvent, hEventCloses, dataSignaled, eventRegistered>>
    /\ UNCHANGED <<pumpPc, blockAlign, bufferSize, frames, bufFrames, bufferHeld, isActive,
                   pumpErr, pumpFaults>>
    /\ UNCHANGED logVars
    /\ UNCHANGED otherVars
    /\ UNCHANGED padding

(***************************************************************************)
(* audio_stream.rs: start(), the pump threads, the drop of the stream.     *)
(***************************************************************************)
IsCapture == entry \in {"process", "device", "loopback"}
IsPlayback == entry = "playback"

\* A faulty variant of start: it takes the config by reference, so that it can
\* be called again on a running stream.
start_by_reference ==
    /\ mainPc \in {"configured", "running"}
    /\ \E spawned \in BOOLEAN :
        IF spawned
        THEN /\ pumpPc' = (IF IsCapture THEN "c_clock" ELSE "p_bufsize")
             /\ threadsSpawned' = threadsSpawned + 1
             /\ startResult' = "Ok"
             /\ mainPc' = "running"
        ELSE /\ startResult' = "FailedToCreateThread"
             /\ mainPc' = "failed"
             /\ UNCHANGED <<pumpPc, threadsSpawned>>
    /\ UNCHANGED <<format, entry, devArg, setupFault, callResult, activationRequested,
                   activateEvent, streamFormat, clientFormat, returnedFormat, stopHandle,
                   stopSignaled, hEvent, hEventCloses, dataSignaled, eventRegistered,
                   clientState, blockAlign, bufferSize, frames, bufFrames, bufferHeld,
                   isActive, pumpErr, pumpFaults, errLog, dataCalls, lastFrames, lastBytes,
                   totalBytes, everActive, relCount, lastRelFrames, lastRelFlags,
                   lastRelActive, nonSilentRelease>>
    /\ UNCHANGED activationVars
    /\ UNCHANGED otherVars
    /\ UNCHANGED padding

\* AudioStreamConfig::start: spawn the thread that runs stream_fn; the config
\* is consumed either way.
start ==
    /\ mainPc = "configured"
    /\ \E spawned \in BOOLEAN :
        IF spawned
        THEN /\ pumpPc' = (IF IsCapture THEN "c_clock" ELSE "p_bufsize")
             /\ threadsSpawned' = threadsSpawned + 1
             /\ startResult' = "Ok"
             /\ mainPc' = "running"
        ELSE /\ startResult' = "FailedToCreateThread"
             /\ mainPc' = "failed"
             /\ UNCHANGED <<pumpPc, threadsSpawned>>
    /\ UNCHANGED <<format, entry, devArg, setupFault, callResult, activationRequested,
                   activateEvent, streamFormat, clientFormat, returnedFormat, stopHandle,
                   stopSignaled, hEvent, hEventCloses, dataSignaled, eventRegistered,
                   clientState, blockAlign, bufferSize, frames, bufFrames, bufferHeld,
                   isActive, pumpErr, pumpFaults, errLog, dataCalls, lastFrames, lastBytes,
                   totalBytes, everActive, relCount, lastRelFrames, lastRelFlags,
                   lastRelActive, nonSilentRelease>>
    /\ UNCHANGED activationVars
    /\ UNCHANGED otherVars
    /\ UNCHANGED padding

\* impl Drop for AudioStream (stop_recording drops self): SetEvent(stop_handle).
drop_SetEvent ==
    /\ mainPc = "running"
    /\ stopSignaled' = TRUE
    /\ mainPc' = "joining"
    /\ UNCHANGED <<format, entry, devArg, setupFault, callResult, activationRequested,
                   activateEvent, streamFormat, clientFormat, returnedFormat, stopHandle,
                   startResult, threadsSpawned, pumpPc, hEvent, hEventCloses, dataSignaled,
                   eventRegistered, clientState, blockAlign, bufferSize, frames, bufFrames,
                   bufferHeld, isActive, pumpErr, pumpFaults, errLog, dataCalls, lastFrames,
                   lastBytes, totalBytes, everActive, relCount, lastRelFrames, lastRelFlags,
                   lastRelActive, nonSilentRelease>>
    /\ UNCHANGED activationVars
    /\ UNCHANGED otherVars
    /\ UNCHANGED padding

\* A faulty variant of drop_join: the thread handle is dropped without a join,
\* so the drop returns while the pump thread may still run.
drop_without_join ==
    /\ mainPc = "joining"
    /\ mainPc' = "stopped"
    /\ UNCHANGED <<format, entry, devArg, setupFault, callResult, activationRequested,
                   activateEvent, streamFormat, clientFormat, returnedFormat, stopHandle,
                   stopSignaled, startResult, threadsSpawned, pumpPc, hEvent, hEventCloses,
                   dataSignaled, eventRegistered, clientState, blockAlign, bufferSize, frames,
                   bufFrames, bufferHeld, isActive, pumpErr, pumpFaults, errLog, dataCalls,
                   lastFrames, lastBytes, totalBytes, everActive, relCount, lastRelFrames,
                   lastRelFlags, lastRelActive, nonSilentRelease>>
    /\ UNCHANGED activationVars
    /\ UNCHANGED otherVars
    /\ UNCHANGED padding

\* impl Drop for AudioStream: thr.join() returns once the pump thread has ended.
drop_join ==
    /\ mainPc = "joining"
    /\ pumpPc = "done"
    /\ mainPc' = "stopped"
    /\ UNCHANGED <<format, entry, devArg, setupFault, callResult, activationRequested,
                   activateEvent, streamFormat, clientFormat, returnedFormat, stopHandle,
                   stopSignaled, startResult, threadsSpawned, pumpPc, hEvent, hEventCloses,
                   dataSignaled, eventRegistered, clientState, blockAlign, bufferSize, frames,
                   bufFrames, bufferHeld, isActive, pumpErr, pumpFaults, errLog, dataCalls,
                   lastFrames, lastBytes, totalBytes, everActive, relCount, lastRelFrames,
                   lastRelFlags, lastRelActive, nonSilentRelease>>
    /\ UNCHANGED activationVars
    /\ UNCHANGED otherVars
    /\ UNCHANGED padding

\* The platform signals the data-ready event registered with SetEventHandle.
DataReady ==
    /\ clientState = "started"
    /\ eventRegistered
    /\ hEvent = "open"
    /\ ~dataSignaled
    /\ dataSignaled' = TRUE
    /\ UNCHANGED <<format, mainPc, entry, devArg, setupFault, callResult, activationRequested,
                   activateEvent, streamFormat, clientFormat, returnedFormat, stopHandle,
                   stopSignaled, startResult, threadsSpawned, pumpPc, hEvent, hEventCloses,
                   eventRegistered, clientState, blockAlign, bufferSize, frames, bufFrames,
                   bufferHeld, isActive, pumpErr, pumpFaults, errLog, dataCalls, lastFrames,
                   lastBytes, totalBytes, everActive, relCount, lastRelFrames, lastRelFlags,
                   lastRelActive, nonSilentRelease>>
    /\ UNCHANGED activationVars
    /\ UNCHANGED otherVars
    /\ UNCHANGED padding

\* A faulty variant of Return: h_event is a bare HANDLE, which no drop closes.
ReturnWithoutClose(res) ==
    /\ pumpPc' = (IF res = "Ok" THEN "done" ELSE "errcb")
    /\ pumpErr' = (IF res = "Ok" THEN pumpErr ELSE res)
    /\ UNCHANGED <<hEvent, hEventCloses>>

\* The pump function returns res (Ok or an Err): its locals are dropped, which
\* closes the data-ready event if it was created (EventHandleWrapper), and the
\* thread's closure goes on to the error callback on an Err.
Return(res) ==
    /\ pumpPc' = (IF res = "Ok" THEN "done" ELSE "errcb")
    /\ pumpErr' = (IF res = "Ok" THEN pumpErr ELSE res)
    /\ hEvent' = (IF hEvent = "open" THEN "closed" ELSE hEvent)
    /\ hEventCloses' = (IF hEvent = "open" THEN hEventCloses + 1 ELSE hEventCloses)

\* A platform call of the pump fails: call names it, err is what map_err makes of it.
Fail(call, err) ==
    /\ pumpFaults' = pumpFaults \cup {call}
    /\ Return(err)

\* A faulty variant of error_callback: the closure reports the error twice.
error_callback_twice ==
    /\ pumpPc = "errcb"
    /\ errLog' = Append(Append(errLog, pumpErr), pumpErr)
    /\ pumpPc' = "done"
    /\ UNCHANGED <<format, mainPc, entry, devArg, setupFault, callResult, activationRequested,
                   activateEvent, streamFormat, clientFormat, returnedFormat, stopHandle,
                   stopSignaled, startResult, threadsSpawned, hEvent, hEventCloses,
                   dataSignaled, eventRegistered, clientState, blockAlign, bufferSize, frames,
                   bufFrames, bufferHeld, isActive, pumpErr, pumpFaults, dataCalls, lastFrames,
                   lastBytes, totalBytes, everActive, relCount, lastRelFrames, lastRelFlags,
                   lastRelActive, nonSilentRelease>>
    /\ UNCHANGED activationVars
    /\ UNCHANGED otherVars
    /\ UNCHANGED padding

\* The closure of create_capture_stream / create_playback_stream after the pump
\* function returned an Err: error_callback(err), then the thread ends.
error_callback ==
    /\ pumpPc = "errcb"
    /\ errLog' = Append(errLog, pumpErr)
    /\ pumpPc' = "done"
    /\ UNCHANGED <<format, mainPc, entry, devArg, setupFault, callResult, activationRequested,
                   activateEvent, streamFormat, clientFormat, returnedFormat, stopHandle,
                   stopSignaled, startResult, threadsSpawned, hEvent, hEventCloses,
                   dataSignaled, eventRegistered, clientState, blockAlign, bufferSize, frames,
                   bufFrames, bufferHeld, isActive, pumpErr, pumpFaults, dataCalls, lastFrames,
                   lastBytes, totalBytes, everActive, relCount, lastRelFrames, lastRelFlags,
                   lastRelActive, nonSilentRelease>>
    /\ UNCHANGED activationVars
    /\ UNCHANGED otherVars
    /\ UNCHANGED padding

\* WaitForMultipleObjectsEx(&[h_event, stop_handle], false, INFINITE, false):
\* the results the platform can give now.  With bWaitAll false it returns the
\* lowest index of a signaled handle, and blocks while none is signaled.
WaitForMultipleObjectsEx(w) ==
    \/ w = WAIT_FAILED
    \/ w = WAIT_OBJECT_0 /\ dataSignaled
    \/ w = WAIT_OBJECT_0 + 1 /\ ~dataSignaled /\ stopSignaled

\* Both events are auto-reset: the wait resets the one it returns.
WaitResets(w) ==
    /\ dataSignaled' = (IF w = WAIT_OBJECT_0 THEN FALSE ELSE dataSignaled)
    /\ stopSignaled' = (IF w = WAIT_OBJECT_0 + 1 THEN FALSE ELSE stopSignaled)

\* A faulty variant of StopEventWasCalled: the stop check is missing.
StopEventNeverCalled(wait_res) == FALSE

\* The stop check of both pumps: if wait_res == WAIT_OBJECT_0.0 + 1 { break; }
StopEventWasCalled(wait_res) == wait_res = WAIT_OBJECT_0 + 1

\* A faulty variant of ViewLen: the frame count is taken for the byte count.
ViewLenFramesOnly(frames_available, align) == frames_available

\* The length in bytes of the view handed to the callback.
ViewLen(frames_available, align) == frames_available * align

\* What an invocation of the data callback leaves in the observer's log.
LogDataCall(bytes) ==
    /\ dataCalls' = (IF dataCalls < MaxCalls THEN dataCalls + 1 ELSE dataCalls)
    /\ totalBytes' = (IF dataCalls < MaxCalls THEN totalBytes + bytes ELSE totalBytes)
    /\ lastBytes' = bytes
    /\ lastFrames' = bufFrames

\* capture_audio: set_thread_priority, GetService::<IAudioClock>, block_align.
capture_GetAudioClock ==
    /\ pumpPc = "c_clock"
    /\ \E ok \in BOOLEAN :
        IF ok
        THEN /\ pumpPc' = "c_event"
             /\ blockAlign' = block_align(streamFormat)
             /\ UNCHANGED <<pumpErr, pumpFaults, hEvent, hEventCloses>>
        ELSE /\ Fail("GetAudioClock", "FailedToGetAudioClock")
             /\ UNCHANGED blockAlign
    /\ UNCHANGED <<format, mainPc, entry, devArg, setupFault, callResult, activationRequested,
                   activateEvent, streamFormat, clientFormat, returnedFormat, stopHandle,
                   stopSignaled, startResult, threadsSpawned, dataSignaled, eventRegistered,
                   clientState, bufferSize, frames, bufFrames, bufferHeld, isActive, errLog,
                   dataCalls, lastFrames, lastBytes, totalBytes, everActive, relCount,
                   lastRelFrames, lastRelFlags, lastRelActive, nonSilentRelease>>
    /\ UNCHANGED activationVars
    /\ UNCHANGED otherVars
    /\ UNCHANGED padding

\* capture_audio: CreateEventA for the data-ready event.
capture_CreateEvent ==
    /\ pumpPc = "c_event"
    /\ \E ok \in BOOLEAN :
        IF ok
        THEN /\ pumpPc' = "c_sethandle"
             /\ hEvent' = "open"
             /\ UNCHANGED <<pumpErr, pumpFaults, hEventCloses>>
        ELSE Fail("CreateEvent", "FailedToCreateStopEvent")
    /\ UNCHANGED <<format, mainPc, entry, devArg, setupFault, callResult, activationRequested,
                   activateEvent, streamFormat, clientFormat, returnedFormat, stopHandle,
                   stopSignaled, startResult, threadsSpawned, dataSignaled, eventRegistered,
                   clientState, blockAlign, bufferSize, frames, bufFrames, bufferHeld,
                   isActive, errLog, dataCalls, lastFrames, lastBytes, totalBytes, everActive,
                   relCount, lastRelFrames, lastRelFlags, lastRelActive, nonSilentRelease>>
    /\ UNCHANGED activationVars
    /\ UNCHANGED otherVars
    /\ UNCHANGED padding

\* capture_audio: audio_client.SetEventHandle.
capture_SetEventHandle ==
    /\ pumpPc = "c_sethandle"
    /\ \E ok \in BOOLEAN :
        IF ok
        THEN /\ pumpPc' = "c_start"
             /\ eventRegistered' = TRUE
             /\ UNCHANGED <<pumpErr, pumpFaults, hEvent, hEventCloses>>
        ELSE /\ Fail("SetEventHandle", "FailedToSetupEventHandle")
             /\ UNCHANGED eventRegistered
    /\ UNCHANGED <<format, mainPc, entry, devArg, setupFault, callResult, activationRequested,
                   activateEvent, streamFormat, clientFormat, returnedFormat, stopHandle,
                   stopSignaled, startResult, threadsSpawned, dataSignaled, clientState,
                   blockAlign, bufferSize, frames, bufFrames, bufferHeld, isActive, errLog,
                   dataCalls, lastFrames, lastBytes, totalBytes, everActive, relCount,
                   lastRelFrames, lastRelFlags, lastRelActive, nonSilentRelease>>
    /\ UNCHANGED activationVars
    /\ UNCHANGED otherVars
    /\ UNCHANGED padding

\* capture_audio: audio_client.Start.
capture_Start ==
    /\ pumpPc = "c_start"
    /\ \E ok \in BOOLEAN :
        IF ok
        THEN /\ pumpPc' = "c_size"
             /\ clientState' = "started"
             /\ UNCHANGED <<pumpErr, pumpFaults, hEvent, hEventCloses>>
        ELSE /\ Fail("Start", "FailedToStartAudioClient")
             /\ UNCHANGED clientState
    /\ UNCHANGED <<format, mainPc, entry, devArg, setupFault, callResult, activationRequested,
                   activateEvent, streamFormat, clientFormat, returnedFormat, stopHandle,
                   stopSignaled, startResult, threadsSpawned, dataSignaled, eventRegistered,
                   blockAlign, bufferSize, frames, bufFrames, bufferHeld, isActive, errLog,
                   dataCalls, lastFrames, lastBytes, totalBytes, everActive, relCount,
                   lastRelFrames, lastRelFlags, lastRelActive, nonSilentRelease>>
    /\ UNCHANGED activationVars
    /\ UNCHANGED otherVars
    /\ UNCHANGED padding

\* A faulty variant of WhileLetEnds: the Err of the query is returned, as with `?`.
WhileLetPropagates == Return("FailedGettingBuffer")

\* `while let Ok(..) = GetNextPacketSize()` with an Err: the loop ends and the
\* function goes on after it.
WhileLetEnds ==
    /\ pumpPc' = "c_stop"
    /\ UNCHANGED <<pumpErr, hEvent, hEventCloses>>

\* capture_audio: the loop condition, GetNextPacketSize; its failure leaves the loop.
capture_GetNextPacketSize ==
    /\ pumpPc = "c_size"
    /\ \E ok \in BOOLEAN : \E n \in 0..MaxFrames :
        IF ok
        THEN /\ frames' = n
             /\ pumpPc' = "c_wait"
             /\ UNCHANGED <<pumpFaults, pumpErr, hEvent, hEventCloses>>
        ELSE /\ n = 0
             /\ pumpFaults' = pumpFaults \cup {"GetNextPacketSize"}
             /\ WhileLetEnds
             /\ UNCHANGED frames
    /\ UNCHANGED <<format, mainPc, entry, devArg, setupFault, callResult, activationRequested,
                   activateEvent, streamFormat, clientFormat, returnedFormat, stopHandle,
                   stopSignaled, startResult, threadsSpawned,
                   dataSignaled, eventRegistered, clientState, blockAlign, bufferSize,
                   bufFrames, bufferHeld, isActive, errLog, dataCalls, lastFrames,
                   lastBytes, totalBytes, everActive, relCount, lastRelFrames, lastRelFlags,
                   lastRelActive, nonSilentRelease>>
    /\ UNCHANGED activationVars
    /\ UNCHANGED otherVars
    /\ UNCHANGED padding

\* capture_audio: the wait on [h_event, stop_handle], the stop check and the zero-frames check.
capture_Wait ==
    /\ pumpPc = "c_wait"
    /\ \E w \in {WAIT_OBJECT_0, WAIT_OBJECT_0 + 1, WAIT_FAILED} :
        /\ WaitForMultipleObjectsEx(w)
        /\ WaitResets(w)
        /\ pumpFaults' = (IF w = WAIT_FAILED THEN pumpFaults \cup {"Wait"} ELSE pumpFaults)
        /\ LET wait_res == get_wait_error(w)
           IN IF ~wait_res.ok
              THEN Return(wait_res.val)
              ELSE /\ pumpPc' = (IF StopEventWasCalled(wait_res.val) THEN "c_stop"
                                 ELSE IF frames = 0 THEN "c_size"
                                 ELSE "c_getbuf")
                   /\ UNCHANGED <<pumpErr, hEvent, hEventCloses>>
    /\ UNCHANGED <<format, mainPc, entry, devArg, setupFault, callResult, activationRequested,
                   activateEvent, streamFormat, clientFormat, returnedFormat, stopHandle,
                   startResult, threadsSpawned, eventRegistered, clientState, blockAlign,
                   bufferSize, frames, bufFrames, bufferHeld, isActive, errLog, dataCalls,
                   lastFrames, lastBytes, totalBytes, everActive, relCount, lastRelFrames,
                   lastRelFlags, lastRelActive, nonSilentRelease>>
    /\ UNCHANGED activationVars
    /\ UNCHANGED otherVars
    /\ UNCHANGED padding

\* capture_audio: capture_client.GetBuffer writes the frame count of the buffer to frames_available.
capture_GetBuffer ==
    /\ pumpPc = "c_getbuf"
    /\ \E ok \in BOOLEAN : \E n \in 0..MaxFrames :
        IF ok
        THEN /\ frames' = n
             /\ bufFrames' = n
             /\ bufferHeld' = TRUE
             /\ pumpPc' = "c_callback"
             /\ UNCHANGED <<pumpErr, pumpFaults, hEvent, hEventCloses>>
        ELSE /\ n = 0
             /\ Fail("GetBuffer", "FailedGettingBuffer")
             /\ UNCHANGED <<frames, bufFrames, bufferHeld>>
    /\ UNCHANGED <<format, mainPc, entry, devArg, setupFault, callResult, activationRequested,
                   activateEvent, streamFormat, clientFormat, returnedFormat, stopHandle,
                   stopSignaled, startResult, threadsSpawned, dataSignaled, eventRegistered,
                   clientState, blockAlign, bufferSize, isActive, errLog, dataCalls,
                   lastFrames, lastBytes, totalBytes, everActive, relCount, lastRelFrames,
                   lastRelFlags, lastRelActive, nonSilentRelease>>
    /\ UNCHANGED activationVars
    /\ UNCHANGED otherVars
    /\ UNCHANGED padding

\* capture_audio: data_callback(CapturePacket) over frames_available * block_align bytes.
capture_DataCallback ==
    /\ pumpPc = "c_callback"
    /\ LogDataCall(ViewLen(frames, blockAlign))
    /\ pumpPc' = "c_release"
    /\ UNCHANGED <<format, mainPc, entry, devArg, setupFault, callResult, activationRequested,
                   activateEvent, streamFormat, clientFormat, returnedFormat, stopHandle,
                   stopSignaled, startResult, threadsSpawned, hEvent, hEventCloses,
                   dataSignaled, eventRegistered, clientState, blockAlign, bufferSize, frames,
                   bufFrames, bufferHeld, isActive, pumpErr, pumpFaults, errLog, everActive,
                   relCount, lastRelFrames, lastRelFlags, lastRelActive, nonSilentRelease>>
    /\ UNCHANGED activationVars
    /\ UNCHANGED otherVars
    /\ UNCHANGED padding

\* capture_audio: capture_client.ReleaseBuffer(frames_available).
capture_ReleaseBuffer ==
    /\ pumpPc = "c_release"
    /\ \E ok \in BOOLEAN :
        IF ok
        THEN /\ bufferHeld' = FALSE
             /\ relCount' = (IF relCount < MaxCalls THEN relCount + 1 ELSE relCount)
             /\ lastRelFrames' = frames
             /\ pumpPc' = "c_size"
             /\ UNCHANGED <<pumpErr, pumpFaults, hEvent, hEventCloses>>
        ELSE /\ Fail("ReleaseBuffer", "FailedReleasingBuffer")
             /\ UNCHANGED <<bufferHeld, relCount, lastRelFrames>>
    /\ UNCHANGED <<format, mainPc, entry, devArg, setupFault, callResult, activationRequested,
                   activateEvent, streamFormat, clientFormat, returnedFormat, stopHandle,
                   stopSignaled, startResult, threadsSpawned, dataSignaled, eventRegistered,
                   clientState, blockAlign, bufferSize, frames, bufFrames, isActive, errLog,
                   dataCalls, lastFrames, lastBytes, totalBytes, everActive, lastRelFlags,
                   lastRelActive, nonSilentRelease>>
    /\ UNCHANGED activationVars
    /\ UNCHANGED otherVars
    /\ UNCHANGED padding

\* capture_audio after the loop: audio_client.Stop.
capture_Stop ==
    /\ pumpPc = "c_stop"
    /\ \E ok \in BOOLEAN :
        IF ok
        THEN /\ clientState' = "stopped"
             /\ pumpPc' = "c_reset"
             /\ UNCHANGED <<pumpErr, pumpFaults, hEvent, hEventCloses>>
        ELSE /\ Fail("Stop", "FailedStoppingAudioClient")
             /\ UNCHANGED clientState
    /\ UNCHANGED <<format, mainPc, entry, devArg, setupFault, callResult, activationRequested,
                   activateEvent, streamFormat, clientFormat, returnedFormat, stopHandle,
                   stopSignaled, startResult, threadsSpawned, dataSignaled, eventRegistered,
                   blockAlign, bufferSize, frames, bufFrames, bufferHeld, isActive, errLog,
                   dataCalls, lastFrames, lastBytes, totalBytes, everActive, relCount,
                   lastRelFrames, lastRelFlags, lastRelActive, nonSilentRelease>>
    /\ UNCHANGED activationVars
    /\ UNCHANGED otherVars
    /\ UNCHANGED padding

\* capture_audio after the loop: audio_client.Reset, then Ok(()).
capture_Reset ==
    /\ pumpPc = "c_reset"
    /\ \E ok \in BOOLEAN :
        IF ok
        THEN /\ clientState' = "reset"
             /\ Return("Ok")
             /\ UNCHANGED pumpFaults
        ELSE /\ Fail("Reset", "FailedResettingAudioClient")
             /\ UNCHANGED clientState
    /\ UNCHANGED <<format, mainPc, entry, devArg, setupFault, callResult, activationRequested,
                   activateEvent, streamFormat, clientFormat, returnedFormat, stopHandle,
                   stopSignaled, startResult, threadsSpawned, dataSignaled, eventRegistered,
                   blockAlign, bufferSize, frames, bufFrames, bufferHeld, isActive, errLog,
                   dataCalls, lastFrames, lastBytes, totalBytes, everActive, relCount,
                   lastRelFrames, lastRelFlags, lastRelActive, nonSilentRelease>>
    /\ UNCHANGED activationVars
    /\ UNCHANGED otherVars
    /\ UNCHANGED padding

\* A faulty variant of ReleaseFlags: the silence flag is set for an active buffer.
ReleaseFlagsInverted(is_active) == IF is_active THEN AUDCLNT_BUFFERFLAGS_SILENT ELSE 0

\* The flags of the playback pump's ReleaseBuffer.
ReleaseFlags(is_active) == IF is_active THEN 0 ELSE AUDCLNT_BUFFERFLAGS_SILENT

\* A faulty variant of AvailableFrames: the padding is taken for the free space.
AvailableFramesIsPadding(buffer_size, current_padding) == current_padding

\* buffer_size - padding, in u32.  The padding the platform reports (the frames
\* queued in the endpoint buffer) never exceeds the buffer size, so that the
\* subtraction does not wrap.
AvailableFrames(buffer_size, current_padding) == buffer_size - current_padding

\* playback_audio: set_thread_priority, audio_client.GetBufferSize.
playback_GetBufferSize ==
    /\ pumpPc = "p_bufsize"
    /\ \E ok \in BOOLEAN :
        IF ok
        THEN /\ bufferSize' = MaxFrames
             /\ pumpPc' = "p_event"
             /\ UNCHANGED <<pumpErr, pumpFaults, hEvent, hEventCloses>>
        ELSE /\ Fail("GetBufferSize", "FailedToStartAudioClient")
             /\ UNCHANGED bufferSize
    /\ UNCHANGED <<format, mainPc, entry, devArg, setupFault, callResult, activationRequested,
                   activateEvent, streamFormat, clientFormat, returnedFormat, stopHandle,
                   stopSignaled, startResult, threadsSpawned, dataSignaled, eventRegistered,
                   clientState, blockAlign, frames, bufFrames, bufferHeld, isActive, errLog,
                   dataCalls, lastFrames, lastBytes, totalBytes, everActive, relCount,
                   lastRelFrames, lastRelFlags, lastRelActive, nonSilentRelease>>
    /\ UNCHANGED activationVars
    /\ UNCHANGED otherVars
    /\ UNCHANGED padding

\* playback_audio: CreateEventA for the data-ready event, block_align.
playback_CreateEvent ==
    /\ pumpPc = "p_event"
    /\ \E ok \in BOOLEAN :
        IF ok
        THEN /\ pumpPc' = "p_sethandle"
             /\ hEvent' = "open"
             /\ blockAlign' = block_align(streamFormat)
             /\ UNCHANGED <<pumpErr, pumpFaults, hEventCloses>>
        ELSE /\ Fail("CreateEvent", "FailedToCreateStopEvent")
             /\ UNCHANGED blockAlign
    /\ UNCHANGED <<format, mainPc, entry, devArg, setupFault, callResult, activationRequested,
                   activateEvent, streamFormat, clientFormat, returnedFormat, stopHandle,
                   stopSignaled, startResult, threadsSpawned, dataSignaled, eventRegistered,
                   clientState, bufferSize, frames, bufFrames, bufferHeld, isActive, errLog,
                   dataCalls, lastFrames, lastBytes, totalBytes, everActive, relCount,
                   lastRelFrames, lastRelFlags, lastRelActive, nonSilentRelease>>
    /\ UNCHANGED activationVars
    /\ UNCHANGED otherVars
    /\ UNCHANGED padding

\* playback_audio: audio_client.SetEventHandle.
playback_SetEventHandle ==
    /\ pumpPc = "p_sethandle"
    /\ \E ok \in BOOLEAN :
        IF ok
        THEN /\ pumpPc' = "p_start"
             /\ eventRegistered' = TRUE
             /\ UNCHANGED <<pumpErr, pumpFaults, hEvent, hEventCloses>>
        ELSE /\ Fail("SetEventHandle", "FailedToSetupEventHandle")
             /\ UNCHANGED eventRegistered
    /\ UNCHANGED <<format, mainPc, entry, devArg, setupFault, callResult, activationRequested,
                   activateEvent, streamFormat, clientFormat, returnedFormat, stopHandle,
                   stopSignaled, startResult, threadsSpawned, dataSignaled, clientState,
                   blockAlign, bufferSize, frames, bufFrames, bufferHeld, isActive, errLog,
                   dataCalls, lastFrames, lastBytes, totalBytes, everActive, relCount,
                   lastRelFrames, lastRelFlags, lastRelActive, nonSilentRelease>>
    /\ UNCHANGED activationVars
    /\ UNCHANGED otherVars
    /\ UNCHANGED padding

\* playback_audio: audio_client.Start.
playback_Start ==
    /\ pumpPc = "p_start"
    /\ \E ok \in BOOLEAN :
        IF ok
        THEN /\ pumpPc' = "p_wait"
             /\ clientState' = "started"
             /\ UNCHANGED <<pumpErr, pumpFaults, hEvent, hEventCloses>>
        ELSE /\ Fail("Start", "FailedToStartAudioClient")
             /\ UNCHANGED clientState
    /\ UNCHANGED <<format, mainPc, entry, devArg, setupFault, callResult, activationRequested,
                   activateEvent, streamFormat, clientFormat, returnedFormat, stopHandle,
                   stopSignaled, startResult, threadsSpawned, dataSignaled, eventRegistered,
                   blockAlign, bufferSize, frames, bufFrames, bufferHeld, isActive, errLog,
                   dataCalls, lastFrames, lastBytes, totalBytes, everActive, relCount,
                   lastRelFrames, lastRelFlags, lastRelActive, nonSilentRelease>>
    /\ UNCHANGED activationVars
    /\ UNCHANGED otherVars
    /\ UNCHANGED padding

\* playback_audio: the wait on [h_event, stop_handle] and the stop check; the break leads to Ok(()).
playback_Wait ==
    /\ pumpPc = "p_wait"
    /\ \E w \in {WAIT_OBJECT_0, WAIT_OBJECT_0 + 1, WAIT_FAILED} :
        /\ WaitForMultipleObjectsEx(w)
        /\ WaitResets(w)
        /\ pumpFaults' = (IF w = WAIT_FAILED THEN pumpFaults \cup {"Wait"} ELSE pumpFaults)
        /\ LET wait_res == get_wait_error(w)
           IN IF ~wait_res.ok
              THEN Return(wait_res.val)
              ELSE IF StopEventWasCalled(wait_res.val)
              THEN Return("Ok")
              ELSE /\ pumpPc' = "p_padding"
                   /\ UNCHANGED <<pumpErr, hEvent, hEventCloses>>
    /\ UNCHANGED <<format, mainPc, entry, devArg, setupFault, callResult, activationRequested,
                   activateEvent, streamFormat, clientFormat, returnedFormat, stopHandle,
                   startResult, threadsSpawned, eventRegistered, clientState, blockAlign,
                   bufferSize, frames, bufFrames, bufferHeld, isActive, errLog, dataCalls,
                   lastFrames, lastBytes, totalBytes, everActive, relCount, lastRelFrames,
                   lastRelFlags, lastRelActive, nonSilentRelease>>
    /\ UNCHANGED activationVars
    /\ UNCHANGED otherVars
    /\ UNCHANGED padding

\* playback_audio: GetCurrentPadding, available_frames = buffer_size - padding, the zero check.
playback_GetCurrentPadding ==
    /\ pumpPc = "p_padding"
    /\ \E ok \in BOOLEAN : \E current_padding \in 0..bufferSize :
        IF ok
        THEN /\ padding' = current_padding
             /\ frames' = AvailableFrames(bufferSize, current_padding)
             /\ pumpPc' = (IF AvailableFrames(bufferSize, current_padding) = 0
                           THEN "p_wait" ELSE "p_getbuf")
             /\ UNCHANGED <<pumpErr, pumpFaults, hEvent, hEventCloses>>
        ELSE /\ current_padding = 0
             /\ Fail("GetCurrentPadding", "FailedGettingBuffer")
             /\ UNCHANGED <<frames, padding>>
    /\ UNCHANGED <<format, mainPc, entry, devArg, setupFault, callResult, activationRequested,
                   activateEvent, streamFormat, clientFormat, returnedFormat, stopHandle,
                   stopSignaled, startResult, threadsSpawned, dataSignaled, eventRegistered,
                   clientState, blockAlign, bufferSize, bufFrames, bufferHeld, isActive,
                   errLog, dataCalls, lastFrames, lastBytes, totalBytes, everActive, relCount,
                   lastRelFrames, lastRelFlags, lastRelActive, nonSilentRelease>>
    /\ UNCHANGED activationVars
    /\ UNCHANGED otherVars

\* playback_audio: render_client.GetBuffer(available_frames).
playback_GetBuffer ==
    /\ pumpPc = "p_getbuf"
    /\ \E ok \in BOOLEAN :
        IF ok
        THEN /\ bufFrames' = frames
             /\ bufferHeld' = TRUE
             /\ pumpPc' = "p_callback"
             /\ UNCHANGED <<pumpErr, pumpFaults, hEvent, hEventCloses>>
        ELSE /\ Fail("GetBuffer", "FailedGettingBuffer")
             /\ UNCHANGED <<bufFrames, bufferHeld>>
    /\ UNCHANGED <<format, mainPc, entry, devArg, setupFault, callResult, activationRequested,
                   activateEvent, streamFormat, clientFormat, returnedFormat, stopHandle,
                   stopSignaled, startResult, threadsSpawned, dataSignaled, eventRegistered,
                   clientState, blockAlign, bufferSize, frames, isActive, errLog, dataCalls,
                   lastFrames, lastBytes, totalBytes, everActive, relCount, lastRelFrames,
                   lastRelFlags, lastRelActive, nonSilentRelease>>
    /\ UNCHANGED activationVars
    /\ UNCHANGED otherVars
    /\ UNCHANGED padding

\* playback_audio: is_active = data_callback(buffer) over available_frames * block_align bytes.
playback_DataCallback ==
    /\ pumpPc = "p_callback"
    /\ \E active \in BOOLEAN :
        /\ isActive' = active
        /\ everActive' = (everActive \/ active)
    /\ LogDataCall(ViewLen(frames, blockAlign))
    /\ pumpPc' = "p_release"
    /\ UNCHANGED <<format, mainPc, entry, devArg, setupFault, callResult, activationRequested,
                   activateEvent, streamFormat, clientFormat, returnedFormat, stopHandle,
                   stopSignaled, startResult, threadsSpawned, hEvent, hEventCloses,
                   dataSignaled, eventRegistered, clientState, blockAlign, bufferSize, frames,
                   bufFrames, bufferHeld, pumpErr, pumpFaults, errLog, relCount, lastRelFrames,
                   lastRelFlags, lastRelActive, nonSilentRelease>>
    /\ UNCHANGED activationVars
    /\ UNCHANGED otherVars
    /\ UNCHANGED padding

\* playback_audio: render_client.ReleaseBuffer(available_frames, flags).
playback_ReleaseBuffer ==
    /\ pumpPc = "p_release"
    /\ \E ok \in BOOLEAN :
        IF ok
        THEN /\ bufferHeld' = FALSE
             /\ relCount' = (IF relCount < MaxCalls THEN relCount + 1 ELSE relCount)
             /\ lastRelFrames' = frames
             /\ lastRelFlags' = ReleaseFlags(isActive)
             /\ lastRelActive' = isActive
             /\ nonSilentRelease' =
                    (nonSilentRelease \/ ReleaseFlags(isActive) # AUDCLNT_BUFFERFLAGS_SILENT)
             /\ pumpPc' = "p_wait"
             /\ UNCHANGED <<pumpErr, pumpFaults, hEvent, hEventCloses>>
        ELSE /\ Fail("ReleaseBuffer", "FailedReleasingBuffer")
             /\ UNCHANGED <<bufferHeld, relCount, lastRelFrames, lastRelFlags, lastRelActive,
                            nonSilentRelease>>
    /\ UNCHANGED <<format, mainPc, entry, devArg, setupFault, callResult, activationRequested,
                   activateEvent, streamFormat, clientFormat, returnedFormat, stopHandle,
                   stopSignaled, startResult, threadsSpawned, dataSignaled, eventRegistered,
                   clientState, blockAlign, bufferSize, frames, bufFrames, isActive, errLog,
                   dataCalls, lastFrames, lastBytes, totalBytes, everActive>>
    /\ UNCHANGED activationVars
    /\ UNCHANGED otherVars
    /\ UNCHANGED padding

(***************************************************************************)
(* The specifications.                                                     *)
(***************************************************************************)
\* The caller's thread.
Caller ==
    \/ \E f \in UserFormats : set_format(f)
    \/ start_recording_process
    \/ start_recording_device
    \/ start_recording_loopback_device
    \/ start_playback_device
    \/ get_audio_client_wait
    \/ start
    \/ drop_SetEvent
    \/ drop_join

\* The pump thread.
Pump ==
    \/ capture_GetAudioClock
    \/ capture_CreateEvent
    \/ capture_SetEventHandle
    \/ capture_Start
    \/ capture_GetNextPacketSize
    \/ capture_Wait
    \/ capture_GetBuffer
    \/ capture_DataCallback
    \/ capture_ReleaseBuffer
    \/ capture_Stop
    \/ capture_Reset
    \/ playback_GetBufferSize
    \/ playback_CreateEvent
    \/ playback_SetEventHandle
    \/ playback_Start
    \/ playback_Wait
    \/ playback_GetCurrentPadding
    \/ playback_GetBuffer
    \/ playback_DataCallback
    \/ playback_ReleaseBuffer
    \/ error_callback

\* The platform.
Platform ==
    \/ ActivateCompleted
    \/ DataReady

Next == Caller \/ Pump \/ Platform

Spec == Init /\ [][Next]_vars

\* The threads are scheduled: the pump thread and the caller's thread each take
\* their next step when they can.  Nothing is assumed of the platform.
FairSpec == Spec /\ WF_vars(Pump) /\ WF_vars(Caller)

(***************************************************************************)
(* notifications.rs: the Notifications object, on its owner's thread.      *)
(***************************************************************************)
ownerVars == <<nPc, nOps, nResult, pendingCmd>>
deviceVars == <<deviceClient, endpointCallbacks>>
eventClientVars == <<sessionEventClient, eventSinks, evCall>>
workerVars == <<workerPc, notifications, sessionSinks, wLast, errorsSent, workerFault>>

\* The panics of the owner's thread: unwrap of a failed send, expect of a failed
\* unregistration in drop, unwrap of the join of a panicked worker.
Panics == {"panic: SendError", "panic: expect", "panic: join"}

\* A call returns res to the owner; a panic ends the owner's thread.
NReturn(res) ==
    /\ nResult' = res
    /\ nPc' = (IF res \in Panics THEN "panicked" ELSE "idle")

\* The owner makes one more call.
CountOp ==
    /\ nOps < MaxOps
    /\ nOps' = nOps + 1

\* Notifications::setup_notifications
setup_notifications ==
    /\ nPc = "idle"
    /\ CountOp
    /\ \E fault \in {"none", "CoCreateInstance", "RegisterEndpointNotificationCallback"} :
        IF deviceClient
        THEN /\ fault = "none"
             /\ NReturn("NotificationAlreadyRegistered")
             /\ UNCHANGED deviceVars
        ELSE /\ NReturn(CASE fault = "CoCreateInstance" -> "InstanceCreationError"
                          [] fault = "RegisterEndpointNotificationCallback" ->
                                 "NotificationRegisterError"
                          [] OTHER -> "Ok")
             /\ deviceClient' = (fault = "none")
             /\ endpointCallbacks' = (IF fault = "none" THEN endpointCallbacks + 1
                                      ELSE endpointCallbacks)
    /\ UNCHANGED <<pendingCmd, eventClientVars, sessionNotification, workerVars, cmdQ, respQ>>
    /\ UNCHANGED <<streamVars, fmtVars, sinkVars, instVars, legacyVars>>

\* A faulty variant of ContainsKey: the lookup never finds the key.
ContainsKeyNever(registry, name) == FALSE

\* HashMap::contains_key on _session_event_client
ContainsKey(registry, name) == registry[name] > 0

\* HashMap::insert: the entry of the key is the new value, whatever it was.
HashMapInsert(registry, name) == [registry EXCEPT ![name] = 1]

\* HashMap::remove
HashMapRemove(registry, name) == [registry EXCEPT ![name] = 0]

\* Notifications::register_session_event
register_session_event(s) ==
    /\ nPc = "idle"
    /\ CountOp
    /\ \E ok \in BOOLEAN :
        LET res == IF s \in UnreadableNames THEN "PCWSTRConversionError"
                   ELSE IF ContainsKey(sessionEventClient, s)
                   THEN "NotificationAlreadyRegistered"
                   ELSE IF ~ok THEN "FailedSettingUpNotification"
                   ELSE "Ok"
        IN /\ res \in {"PCWSTRConversionError", "NotificationAlreadyRegistered"} => ok
           /\ sessionEventClient' = (IF res = "Ok" THEN HashMapInsert(sessionEventClient, s)
                                     ELSE sessionEventClient)
           /\ eventSinks' = (IF res = "Ok" THEN [eventSinks EXCEPT ![s] = @ + 1]
                             ELSE eventSinks)
           /\ evCall' = [session |-> s,
                         wasRegistered |-> sessionEventClient[s] > 0,
                         result |-> res,
                         sinksAdded |-> eventSinks'[s] - eventSinks[s],
                         registryChanged |-> sessionEventClient' # sessionEventClient]
           /\ NReturn(res)
    /\ UNCHANGED <<pendingCmd, deviceVars, sessionNotification, workerVars, cmdQ, respQ>>
    /\ UNCHANGED <<streamVars, fmtVars, sinkVars, instVars, legacyVars>>

\* Notifications::unregister_session_event: the entry is removed before the
\* platform call, so it is gone also when the call fails.
unregister_session_event(s) ==
    /\ nPc = "idle"
    /\ CountOp
    /\ \E ok \in BOOLEAN :
        LET had == s \notin UnreadableNames /\ ContainsKey(sessionEventClient, s)
            res == IF s \in UnreadableNames THEN "PCWSTRConversionError"
                   ELSE IF had /\ ~ok THEN "NotificationUnregisterError"
                   ELSE "Ok"
        IN /\ ~had => ok
           /\ sessionEventClient' = (IF had THEN HashMapRemove(sessionEventClient, s)
                                     ELSE sessionEventClient)
           /\ eventSinks' = (IF had /\ ok THEN [eventSinks EXCEPT ![s] = @ - 1]
                             ELSE eventSinks)
           /\ NReturn(res)
    /\ UNCHANGED <<pendingCmd, deviceVars, evCall, sessionNotification, workerVars, cmdQ, respQ>>
    /\ UNCHANGED <<streamVars, fmtVars, sinkVars, instVars, legacyVars>>

\* send.send(cmd).unwrap(): the send fails, and unwrap panics, once the worker
\* has dropped the receiver (its thread function has returned or panicked).
SendCommand(cmd, next) ==
    IF workerPc \in {"init", "recv", "exiting"}
    THEN /\ cmdQ' = Append(cmdQ, cmd)
         /\ nPc' = next
         /\ UNCHANGED nResult
    ELSE /\ NReturn("panic: SendError")
         /\ UNCHANGED cmdQ

\* recv.recv() on the response channel: a message when there is one, an error
\* once the channel is empty and the worker has dropped the sender; it blocks
\* otherwise.
CanRecv == respQ # <<>> \/ workerPc \in {"exited", "panicked"}
Recv == IF respQ # <<>> THEN Head(respQ) ELSE "RecvError"
RecvRest == IF respQ # <<>> THEN Tail(respQ) ELSE respQ

\* A faulty variant of session_notification_is_some: the check is missing.
session_notification_never_some == FALSE

\* notification_thread_running: if self._session_notification.is_some() { return Ok(()) }
session_notification_is_some == sessionNotification = "Some"

\* Notifications::register_session_notification up to its send; with no worker
\* yet, notification_thread_running makes the channels and spawns the thread.
register_session_notification(d) ==
    /\ nPc = "idle"
    /\ CountOp
    /\ pendingCmd' = [op |-> "RegisterNotification", dev |-> d]
    /\ IF ~session_notification_is_some
       THEN /\ workerPc' = "init"
            /\ notifications' = {}
            /\ cmdQ' = <<>>
            /\ respQ' = <<>>
            /\ nPc' = "await_ready"
            /\ UNCHANGED nResult
       ELSE /\ SendCommand(pendingCmd', "await_register")
            /\ UNCHANGED <<workerPc, notifications, respQ>>
    /\ UNCHANGED <<deviceVars, eventClientVars, sessionNotification, sessionSinks, wLast,
                   errorsSent, workerFault>>
    /\ UNCHANGED <<streamVars, fmtVars, sinkVars, instVars, legacyVars>>

\* notification_thread_running from its recv on, then the send of
\* register_session_notification.
notification_thread_running ==
    /\ nPc = "await_ready"
    /\ CanRecv
    /\ respQ' = RecvRest
    /\ IF Recv = "Ready"
       THEN /\ sessionNotification' = "Some"
            /\ SendCommand(pendingCmd, "await_register")
       ELSE /\ NReturn("FailedStartingNotificationThread")
            /\ UNCHANGED <<sessionNotification, cmdQ>>
    /\ UNCHANGED <<nOps, pendingCmd, deviceVars, eventClientVars, workerVars>>
    /\ UNCHANGED <<streamVars, fmtVars, sinkVars, instVars, legacyVars>>

\* register_session_notification: the recv of the response.
register_session_notification_recv ==
    /\ nPc = "await_register"
    /\ CanRecv
    /\ respQ' = RecvRest
    /\ NReturn(IF Recv = "NotificationRegistered" THEN "Ok"
               ELSE "FailedRegisteringSessionNotification")
    /\ UNCHANGED <<nOps, pendingCmd, deviceVars, eventClientVars, sessionNotification,
                   workerVars, cmdQ>>
    /\ UNCHANGED <<streamVars, fmtVars, sinkVars, instVars, legacyVars>>

\* Notifications::unregister_session_notification up to its send.
unregister_session_notification(d) ==
    /\ nPc = "idle"
    /\ CountOp
    /\ pendingCmd' = [op |-> "UnregisterNotification", dev |-> d]
    /\ IF sessionNotification = "None"
       THEN /\ NReturn("SessionNotificationThreadNotRunning")
            /\ UNCHANGED cmdQ
       ELSE SendCommand(pendingCmd', "await_unregister")
    /\ UNCHANGED <<deviceVars, eventClientVars, sessionNotification, workerVars, respQ>>
    /\ UNCHANGED <<streamVars, fmtVars, sinkVars, instVars, legacyVars>>

\* unregister_session_notification: the recv of the response.
unregister_session_notification_recv ==
    /\ nPc = "await_unregister"
    /\ CanRecv
    /\ respQ' = RecvRest
    /\ NReturn(IF Recv = "NotificationUnregistered" THEN "Ok"
               ELSE "FailedUnregisteringSessionNotification")
    /\ UNCHANGED <<nOps, pendingCmd, deviceVars, eventClientVars, sessionNotification,
                   workerVars, cmdQ>>
    /\ UNCHANGED <<streamVars, fmtVars, sinkVars, instVars, legacyVars>>

\* The session ids _session_event_client holds an entry for.
EventEntries == {s \in Sessions : sessionEventClient[s] > 0}

\* impl Drop for Notifications up to send(Stop): the endpoint callback and every
\* session-event entry are unregistered (expect: a failure panics), then Stop
\* is sent to the worker if there is one (unwrap: a failed send panics).
drop_Notifications ==
    /\ nPc = "idle"
    /\ \E fault \in {"none", "UnregisterEndpointNotificationCallback",
                     "UnregisterAudioSessionNotification"} :
       \E failing \in Sessions : \E done \in SUBSET EventEntries :
        /\ fault = "UnregisterEndpointNotificationCallback" => deviceClient
        /\ fault = "UnregisterAudioSessionNotification" =>
                (failing \in EventEntries /\ failing \notin done)
        /\ fault # "UnregisterAudioSessionNotification" =>
                (failing = "SessionA" /\
                    done = (IF fault = "none" THEN EventEntries ELSE {}))
        /\ deviceClient' = FALSE
        /\ endpointCallbacks' =
               (IF deviceClient /\ fault # "UnregisterEndpointNotificationCallback"
                THEN endpointCallbacks - 1 ELSE endpointCallbacks)
        /\ sessionEventClient' =
               (IF fault = "UnregisterEndpointNotificationCallback" THEN sessionEventClient
                ELSE [s \in Sessions |-> 0])
        /\ eventSinks' = [s \in Sessions |-> IF s \in done THEN eventSinks[s] - 1
                                             ELSE eventSinks[s]]
        /\ IF fault # "none"
           THEN /\ NReturn("panic: expect")
                /\ UNCHANGED <<sessionNotification, cmdQ>>
           ELSE IF sessionNotification = "Some"
           THEN /\ SendCommand([op |-> "Stop", dev |-> "none"], "drop_join")
                /\ UNCHANGED sessionNotification
           ELSE /\ nPc' = "dropped"
                /\ UNCHANGED <<nResult, sessionNotification, cmdQ>>
    /\ UNCHANGED <<nOps, pendingCmd, evCall, workerVars, respQ>>
    /\ UNCHANGED <<streamVars, fmtVars, sinkVars, instVars, legacyVars>>

\* impl Drop for Notifications: t.join().unwrap(), which panics when the worker
\* has panicked.
drop_Notifications_join ==
    /\ nPc = "drop_join"
    /\ workerPc \in {"exited", "panicked"}
    /\ IF workerPc = "exited"
       THEN /\ nPc' = "dropped"
            /\ UNCHANGED nResult
       ELSE NReturn("panic: join")
    /\ UNCHANGED <<nOps, pendingCmd, deviceVars, eventClientVars, sessionNotification,
                   workerVars, cmdQ, respQ>>
    /\ UNCHANGED <<streamVars, fmtVars, sinkVars, instVars, legacyVars>>

(***************************************************************************)
(* session_notification.rs: the worker thread.                             *)
(***************************************************************************)
\* session_notification_thread up to its loop: CoInitializeEx(..).unwrap(), then
\* Ready is sent.
worker_init ==
    /\ workerPc = "init"
    /\ \E ok \in BOOLEAN :
        IF ok
        THEN /\ respQ' = Append(respQ, "Ready")
             /\ workerPc' = "recv"
        ELSE /\ workerPc' = "panicked"
             /\ UNCHANGED respQ
    /\ UNCHANGED <<ownerVars, deviceVars, eventClientVars, sessionNotification, notifications,
                   sessionSinks, cmdQ, wLast, errorsSent, workerFault>>
    /\ UNCHANGED <<streamVars, fmtVars, sinkVars, instVars, legacyVars>>

\* A faulty variant of session_notification_thread: the loop goes on after an
\* error instead of breaking.
session_notification_thread_goes_on(res, sent) ==
    /\ respQ' = respQ \o sent \o
                   (CASE res = "Stop" -> <<"Stopped">>
                      [] res = "Error" -> <<"Error">>
                      [] OTHER -> <<>>)
    /\ workerPc' = (IF res = "Stop" THEN "exiting" ELSE "recv")
    /\ errorsSent' = (IF res = "Error" THEN errorsSent + 1 ELSE errorsSent)

\* session_notification_thread: the match on what thread_inner returned, after
\* thread_inner sent the responses in sent.  Continue: next command; Stop:
\* Stopped is sent and the loop ends; Err: Error is sent and the loop ends.
session_notification_thread(res, sent) ==
    /\ respQ' = respQ \o sent \o
                   (CASE res = "Stop" -> <<"Stopped">>
                      [] res = "Error" -> <<"Error">>
                      [] OTHER -> <<>>)
    /\ workerPc' = (IF res = "Continue" THEN "recv" ELSE "exiting")
    /\ errorsSent' = (IF res = "Error" THEN errorsSent + 1 ELSE errorsSent)

\* What the observer records of a handled command: the responses sent for it,
\* the table before it, and the devices whose entry UnregisterSessionNotification
\* was called on.
Handled(cmd, res, sent, unregisterCalled) ==
    /\ wLast' = [cmd |-> cmd.op, dev |-> cmd.dev,
                 responses |-> Len(sent) + (IF res = "Continue" THEN 0 ELSE 1),
                 table |-> notifications,
                 unregisterCalled |-> unregisterCalled,
                 response |-> (CASE res = "Stop" -> "Stopped"
                                 [] res = "Error" -> "Error"
                                 [] sent # <<>> -> sent[Len(sent)]
                                 [] OTHER -> "none")]
    /\ cmdQ' = Tail(cmdQ)

\* A faulty variant of RegisterCalls: the count call comes before the sink is
\* registered.
RegisterCallsCountFirst ==
    <<"Activate", "GetSessionEnumerator", "GetCount", "RegisterSessionNotification", "GetId",
      "ToString">>

\* The platform calls of the RegisterNotification arm, in order.
RegisterCalls ==
    <<"Activate", "GetSessionEnumerator", "RegisterSessionNotification", "GetId", "ToString",
      "GetCount">>

\* thread_inner, RegisterNotification: the sink is registered with the platform
\* once RegisterSessionNotification has succeeded, and it is in the table once
\* GetId and to_string have; notifications.insert replaces the entry of a device
\* that has one, dropping the old one without unregistering it.
worker_RegisterNotification ==
    /\ workerPc = "recv"
    /\ cmdQ # <<>>
    /\ Head(cmdQ).op = "RegisterNotification"
    /\ \E fault \in StepsOf(RegisterCalls) \cup {"none"} :
        LET d == Head(cmdQ).dev
            registered == Succeeded(RegisterCalls, fault, "RegisterSessionNotification")
            inserted == Succeeded(RegisterCalls, fault, "ToString")
            res == IF fault = "none" THEN "Continue" ELSE "Error"
            sent == IF fault = "none" THEN <<"NotificationRegistered">> ELSE <<>>
        IN /\ sessionSinks' = (IF registered THEN [sessionSinks EXCEPT ![d] = @ + 1]
                               ELSE sessionSinks)
           /\ notifications' = (IF inserted THEN notifications \cup {d} ELSE notifications)
           /\ workerFault' = (IF fault = "none" THEN workerFault ELSE fault)
           /\ session_notification_thread(res, sent)
           /\ Handled(Head(cmdQ), res, sent, {})
    /\ UNCHANGED <<ownerVars, deviceVars, eventClientVars, sessionNotification>>
    /\ UNCHANGED <<streamVars, fmtVars, sinkVars, instVars, legacyVars>>

\* thread_inner, UnregisterNotification: a response is sent only when the device
\* had an entry.
worker_UnregisterNotification ==
    /\ workerPc = "recv"
    /\ cmdQ # <<>>
    /\ Head(cmdQ).op = "UnregisterNotification"
    /\ \E fault \in {"none", "GetId", "ToString", "UnregisterSessionNotification"} :
        LET d == Head(cmdQ).dev
            removed == fault \notin {"GetId", "ToString"} /\ d \in notifications
            unregistered == removed /\ fault = "none"
            res == IF fault = "none" THEN "Continue" ELSE "Error"
            sent == IF unregistered THEN <<"NotificationUnregistered">> ELSE <<>>
        IN /\ fault = "UnregisterSessionNotification" => d \in notifications
           /\ notifications' = (IF removed THEN notifications \ {d} ELSE notifications)
           /\ sessionSinks' = (IF unregistered THEN [sessionSinks EXCEPT ![d] = @ - 1]
                               ELSE sessionSinks)
           /\ workerFault' = (IF fault = "none" THEN workerFault ELSE fault)
           /\ session_notification_thread(res, sent)
           /\ Handled(Head(cmdQ), res, sent, IF removed THEN {d} ELSE {})
    /\ UNCHANGED <<ownerVars, deviceVars, eventClientVars, sessionNotification>>
    /\ UNCHANGED <<streamVars, fmtVars, sinkVars, instVars, legacyVars>>

\* thread_inner, Stop: notifications.drain() in some order, unregistering each
\* entry; the first failure returns the error, and the drain, dropped, removes
\* the entries not yet reached without unregistering them.
worker_Stop ==
    /\ workerPc = "recv"
    /\ cmdQ # <<>>
    /\ Head(cmdQ).op = "Stop"
    /\ \E failing \in notifications \cup {"none"} : \E done \in SUBSET notifications :
        LET res == IF failing = "none" THEN "Stop" ELSE "Error"
        IN /\ failing = "none" => done = notifications
           /\ failing \notin done
           /\ notifications' = {}
           /\ sessionSinks' = [d \in NotifDevices |->
                                  IF d \in done THEN sessionSinks[d] - 1 ELSE sessionSinks[d]]
           /\ workerFault' = (IF failing = "none" THEN workerFault
                              ELSE "UnregisterSessionNotification")
           /\ session_notification_thread(res, <<>>)
           /\ Handled(Head(cmdQ), res, <<>>, done \cup (notifications \cap {failing}))
    /\ UNCHANGED <<ownerVars, deviceVars, eventClientVars, sessionNotification>>
    /\ UNCHANGED <<streamVars, fmtVars, sinkVars, instVars, legacyVars>>

\* thread_inner: recv.recv() fails once the command channel is empty and its
\* sender is gone (the owner panicked and its fields were dropped): panic.
worker_recv_error ==
    /\ workerPc = "recv"
    /\ cmdQ = <<>>
    /\ nPc = "panicked"
    /\ sessionNotification = "Some"
    /\ workerPc' = "panicked"
    /\ UNCHANGED <<ownerVars, deviceVars, eventClientVars, sessionNotification, notifications,
                   sessionSinks, cmdQ, respQ, wLast, errorsSent, workerFault>>
    /\ UNCHANGED <<streamVars, fmtVars, sinkVars, instVars, legacyVars>>

\* session_notification_thread returns: the thread ends and its ends of the two
\* channels are dropped.
worker_exit ==
    /\ workerPc = "exiting"
    /\ workerPc' = "exited"
    /\ UNCHANGED <<ownerVars, deviceVars, eventClientVars, sessionNotification, notifications,
                   sessionSinks, cmdQ, respQ, wLast, errorsSent, workerFault>>
    /\ UNCHANGED <<streamVars, fmtVars, sinkVars, instVars, legacyVars>>

\* The owner's thread of a Notifications object.
Owner ==
    \/ setup_notifications
    \/ \E s \in Sessions : register_session_event(s)
    \/ \E s \in Sessions : unregister_session_event(s)
    \/ \E d \in NotifDevices : register_session_notification(d)
    \/ notification_thread_running
    \/ register_session_notification_recv
    \/ \E d \in NotifDevices : unregister_session_notification(d)
    \/ unregister_session_notification_recv
    \/ drop_Notifications
    \/ drop_Notifications_join

\* The worker thread.
Worker ==
    \/ worker_init
    \/ worker_RegisterNotification
    \/ worker_UnregisterNotification
    \/ worker_Stop
    \/ worker_recv_error
    \/ worker_exit

NotifNext == Owner \/ Worker

\* A Notifications object and its worker thread.
NotifSpec == Init /\ [][NotifNext]_vars

(***************************************************************************)
(* notifications.rs: the sinks the platform calls back; event_args.rs and  *)
(* manager.rs: the conversions of the platform's discriminants.            *)
(***************************************************************************)
\* A faulty variant of EventVariant: a state change is delivered as a disconnection.
EventVariantStateAsDisconnected(kind) ==
    CASE kind = "OnDisplayNameChanged" -> "DisplayNameChanged"
      [] kind = "OnIconPathChanged" -> "IconPathChanged"
      [] kind = "OnSimpleVolumeChanged" -> "SimpleVolumeChanged"
      [] kind = "OnChannelVolumeChanged" -> "ChannelVolumeChanged"
      [] kind = "OnGroupingParamChanged" -> "GroupingParamChanged"
      [] kind = "OnStateChanged" -> "SessionDisconnected"
      [] kind = "OnSessionDisconnected" -> "SessionDisconnected"

\* The variant of AudioSessionEventArgs each handler of ISessionEventClient constructs.
EventVariant(kind) ==
    CASE kind = "OnDisplayNameChanged" -> "DisplayNameChanged"
      [] kind = "OnIconPathChanged" -> "IconPathChanged"
      [] kind = "OnSimpleVolumeChanged" -> "SimpleVolumeChanged"
      [] kind = "OnChannelVolumeChanged" -> "ChannelVolumeChanged"
      [] kind = "OnGroupingParamChanged" -> "GroupingParamChanged"
      [] kind = "OnStateChanged" -> "StateChanged"
      [] kind = "OnSessionDisconnected" -> "SessionDisconnected"

\* IAudioSessionEvents_Impl for ISessionEventClient_Impl: the platform calls
\* handler kind of a registered sink with its arguments; the handler calls
\* _callback_fn with the variant holding them and returns Ok(()).
ISessionEventClient_Impl(kind, s, args) ==
    /\ nPc # "panicked"
    /\ eventSinks[s] > 0
    /\ sinkCall' = [kind |-> kind, session |-> s, args |-> args,
                    delivered |-> <<[variant |-> EventVariant(kind), args |-> args]>>,
                    ret |-> "Ok"]
    /\ UNCHANGED <<devSinkCall, conv>>
    /\ UNCHANGED <<streamVars, notifVars, fmtVars, instVars, legacyVars>>

\* IMMNotificationClient_Impl for IDeviceNotificationClient_Impl: the platform
\* calls handler kind of the sink setup_notifications registered; every
\* handler prints a line and panics (todo!()).  The sink holds no callback.
IDeviceNotificationClient_Impl(kind) ==
    /\ nPc # "panicked"
    /\ endpointCallbacks > 0
    /\ devSinkCall' = [kind |-> kind, delivered |-> <<>>, ret |-> "panic"]
    /\ nPc' = "panicked"
    /\ UNCHANGED <<nOps, nResult, pendingCmd, deviceVars, eventClientVars, sessionNotification,
                   workerVars, cmdQ, respQ>>
    /\ UNCHANGED <<sinkCall, conv>>
    /\ UNCHANGED <<streamVars, fmtVars, instVars, legacyVars>>

\* StateChangedArgs::get_state
get_state(newstate) ==
    CASE newstate = 0 -> "AudioSessionStateInactive"
      [] newstate = 1 -> "AudioSessionStateActive"
      [] newstate = 2 -> "AudioSessionStateExpired"
      [] OTHER -> "panic"

\* SessionDisconnectedArgs::get_reason
get_reason(disconnectreason) ==
    CASE disconnectreason = 0 -> "DisconnectReasonDeviceRemoval"
      [] disconnectreason = 1 -> "DisconnectReasonServerShutdown"
      [] disconnectreason = 2 -> "DisconnectReasonFormatChanged"
      [] disconnectreason = 3 -> "DisconnectReasonSessionLogoff"
      [] disconnectreason = 4 -> "DisconnectReasonSessionDisconnected"
      [] disconnectreason = 5 -> "DisconnectReasonExclusiveModeOverride"
      [] OTHER -> "panic"

\* A faulty variant of DeviceStateFrom: a value that is no state is taken for All.
DeviceStateFromCoerced(state) ==
    CASE state = 1 -> "Active"
      [] state = 2 -> "Disabled"
      [] state = 4 -> "NotPresent"
      [] state = 8 -> "Unplugged"
      [] OTHER -> "All"

\* impl From<DEVICE_STATE> for DeviceState
DeviceStateFrom(state) ==
    CASE state = 1 -> "Active"
      [] state = 2 -> "Disabled"
      [] state = 4 -> "NotPresent"
      [] state = 8 -> "Unplugged"
      [] state = 15 -> "All"
      [] OTHER -> "panic"

\* impl From<windows::Win32::Media::Audio::AudioSessionState> for AudioSessionState
AudioSessionStateFrom(state) ==
    CASE state = 0 -> "AudioSessionStateInactive"
      [] state = 1 -> "AudioSessionStateActive"
      [] state = 2 -> "AudioSessionStateExpired"
      [] OTHER -> "panic"

\* get_state on the StateChangedArgs of an OnStateChanged callback.
StateChangedArgs_get_state ==
    /\ \E newstate \in -1..3 :
        conv' = [conv EXCEPT !["StateChangedArgs::get_state"] =
                     [input |-> newstate, out |-> get_state(newstate)]]
    /\ UNCHANGED <<sinkCall, devSinkCall>>
    /\ UNCHANGED <<streamVars, notifVars, fmtVars, instVars, legacyVars>>

\* get_reason on the SessionDisconnectedArgs of an OnSessionDisconnected callback.
SessionDisconnectedArgs_get_reason ==
    /\ \E disconnectreason \in -1..6 :
        conv' = [conv EXCEPT !["SessionDisconnectedArgs::get_reason"] =
                     [input |-> disconnectreason, out |-> get_reason(disconnectreason)]]
    /\ UNCHANGED <<sinkCall, devSinkCall>>
    /\ UNCHANGED <<streamVars, notifVars, fmtVars, instVars, legacyVars>>

\* Device::get_state and DeviceStateChangedEventArgs::get_state: state.into().
Device_get_state ==
    /\ \E state \in 0..16 :
        conv' = [conv EXCEPT !["DeviceState::from"] =
                     [input |-> state, out |-> DeviceStateFrom(state)]]
    /\ UNCHANGED <<sinkCall, devSinkCall>>
    /\ UNCHANGED <<streamVars, notifVars, fmtVars, instVars, legacyVars>>

\* Session::get_state: state.into().
Session_get_state ==
    /\ \E state \in -1..3 :
        conv' = [conv EXCEPT !["AudioSessionState::from"] =
                     [input |-> state, out |-> AudioSessionStateFrom(state)]]
    /\ UNCHANGED <<sinkCall, devSinkCall>>
    /\ UNCHANGED <<streamVars, notifVars, fmtVars, instVars, legacyVars>>

\* The owner's registrations and the platform's callbacks.
SinkNext ==
    \/ setup_notifications
    \/ \E s \in Sessions : register_session_event(s)
    \/ \E s \in Sessions : unregister_session_event(s)
    \/ \E kind \in {"OnDisplayNameChanged", "OnIconPathChanged", "OnSimpleVolumeChanged",
                     "OnChannelVolumeChanged", "OnGroupingParamChanged", "OnStateChanged",
                     "OnSessionDisconnected"} :
           \E s \in Sessions : \E args \in {"args1", "args2"} :
               ISessionEventClient_Impl(kind, s, args)
    \/ \E kind \in {"OnDefaultDeviceChanged", "OnDeviceAdded", "OnDeviceRemoved",
                     "OnDeviceStateChanged", "OnPropertyValueChanged"} :
           IDeviceNotificationClient_Impl(kind)

SinkSpec == Init /\ [][SinkNext]_vars

\* The conversions, applied in any order.
ConvNext ==
    \/ StateChangedArgs_get_state
    \/ SessionDisconnectedArgs_get_reason
    \/ Device_get_state
    \/ Session_get_state

ConvSpec == Init /\ [][ConvNext]_vars

(***************************************************************************)
(* sample_format.rs: the functions applied to one format.                  *)
(***************************************************************************)
\* A SampleFormat is converted with into() and read back with
\* from_wave_format_ex.
fmt_round_trip ==
    /\ fmtIn # NoFormat
    /\ rtResult = NoRoundTrip
    /\ rtResult' = RoundTrip(fmtIn)
    /\ UNCHANGED <<fmtIn, alignResult, avgResult>>
    /\ UNCHANGED <<streamVars, notifVars, sinkVars, instVars, legacyVars>>

\* SampleFormat::block_align is called.
fmt_block_align ==
    /\ fmtIn # NoFormat
    /\ alignResult = -1
    /\ alignResult' = block_align(fmtIn)
    /\ UNCHANGED <<fmtIn, rtResult, avgResult>>
    /\ UNCHANGED <<streamVars, notifVars, sinkVars, instVars, legacyVars>>

\* SampleFormat::avg_bytes_per_sec is called.
fmt_avg_bytes_per_sec ==
    /\ fmtIn # NoFormat
    /\ avgResult = NoAvg
    /\ avgResult' = avg_bytes_per_sec(fmtIn)
    /\ UNCHANGED <<fmtIn, rtResult, alignResult>>
    /\ UNCHANGED <<streamVars, notifVars, sinkVars, instVars, legacyVars>>

\* One format of FmtInputs, nothing applied to it yet.
FmtInit ==
    /\ StreamInit
    /\ NotifInit
    /\ SinkIdle
    /\ InstIdle
    /\ LegacyIdle
    /\ fmtIn \in FmtInputs
    /\ rtResult = NoRoundTrip
    /\ alignResult = -1
    /\ avgResult = NoAvg

FmtNext == fmt_round_trip \/ fmt_block_align \/ fmt_avg_bytes_per_sec

\* The functions of sample_format.rs applied to any one format.
FmtSpec == FmtInit /\ [][FmtNext]_vars

(***************************************************************************)
(* stream_instant.rs.  An i128 count of nanoseconds is held as [s, n], the  *)
(* number s * 10^9 + n with n in 0..10^9-1; a u32 is held as the 32-bit    *)
(* integer with the same bits (n - 2^32 from 2^31 on); an Option is held   *)
(* with a flag, some.                                                      *)
(***************************************************************************)
\* The i128 s * 1_000_000_000 + n.
Nanos(s, n) == [s |-> s + (n \div NanosPerSec), n |-> n % NanosPerSec]

\* StreamInstant::as_nanos: secs as i128 * 1_000_000_000 + nanos as i128
\* (2^32 is 4 * 10^9 + 294967296).
as_nanos(t) ==
    IF t.nanos >= 0 THEN Nanos(t.secs, t.nanos)
    ELSE Nanos(t.secs + 4, 294967296 + t.nanos)

\* StreamInstant::from_nanos_i128.  The division truncates towards zero, so
\* that subsec_nanos has the sign of nanos, and `subsec_nanos as u32` keeps its
\* low 32 bits.  secs is within i64 for every integer of this model: the None
\* of the range test is not reached.
from_nanos_i128(nanos) ==
    LET negative == nanos.s < 0 /\ nanos.n > 0
        secs == IF negative THEN nanos.s + 1 ELSE nanos.s
        subsec_nanos == IF negative THEN nanos.n - NanosPerSec ELSE nanos.n
    IN [some |-> TRUE, secs |-> secs, nanos |-> subsec_nanos]

\* #[derive(PartialOrd, Ord)] for StreamInstant: by secs, then by nanos as u32.
InstantLess(a, b) ==
    \/ a.secs < b.secs
    \/ /\ a.secs = b.secs
       /\ IF (a.nanos < 0) = (b.nanos < 0) THEN a.nanos < b.nanos ELSE b.nanos < 0

\* StreamInstant::duration_since: None if self < earlier, and when the
\* difference of the two as_nanos is no u64 (try_into).
duration_since(self, earlier) ==
    LET diff == Nanos(as_nanos(self).s - as_nanos(earlier).s,
                      as_nanos(self).n - as_nanos(earlier).n)
    IN IF InstantLess(self, earlier) \/ diff.s < 0
       THEN [some |-> FALSE, secs |-> 0, nanos |-> 0]
       ELSE [some |-> TRUE, secs |-> diff.s, nanos |-> diff.n]

\* StreamInstant::sub: as_nanos().checked_sub(duration.as_nanos() as i128)
\* .and_then(from_nanos_i128).
sub(t, duration) ==
    from_nanos_i128(Nanos(as_nanos(t).s - duration.secs, as_nanos(t).n - duration.nanos))

\* StreamInstant::add
add(t, duration) ==
    from_nanos_i128(Nanos(as_nanos(t).s + duration.secs, as_nanos(t).n + duration.nanos))

\* t.sub(d) is called.
StreamInstant_sub ==
    /\ subResult = <<>>
    /\ subResult' = <<sub(instT, instD)>>
    /\ UNCHANGED <<instT, instD, addResult>>
    /\ UNCHANGED <<streamVars, notifVars, fmtVars, sinkVars, legacyVars>>

\* t.add(d) is called.
StreamInstant_add ==
    /\ addResult = <<>>
    /\ addResult' = <<add(instT, instD)>>
    /\ UNCHANGED <<instT, instD, subResult>>
    /\ UNCHANGED <<streamVars, notifVars, fmtVars, sinkVars, legacyVars>>

\* One instant within a second of 0 and one duration of up to two seconds.
InstInit ==
    /\ StreamInit
    /\ NotifInit
    /\ FmtIdle
    /\ SinkIdle
    /\ LegacyIdle
    /\ instT \in [secs : -1..1, nanos : {0, 1, 999999999}]
    /\ instD \in [secs : 0..1, nanos : {0, 1, 500000000}]
    /\ subResult = <<>>
    /\ addResult = <<>>

InstNext == StreamInstant_sub \/ StreamInstant_add

InstSpec == InstInit /\ [][InstNext]_vars

(***************************************************************************)
(* audio_capture.rs: the legacy AudioCapture, one instance.                *)
(***************************************************************************)
\* AudioCapture::start_recording_process up to the wait of
\* activate_audio_interface: the check of _activate_completed, then
\* ActivateAudioInterfaceAsync (expect: a failure panics).
AudioCapture_start_recording_process ==
    /\ lPc = "idle"
    /\ lStarts < MaxStarts
    /\ lStarts' = lStarts + 1
    /\ \E ok \in BOOLEAN :
        IF activate_completed
        THEN /\ ok
             /\ lPc' = "panicked"
             /\ lResult' = "panic: one recording"
        ELSE IF ok
        THEN /\ lPc' = "activating"
             /\ lResult' = "none"
        ELSE /\ lPc' = "panicked"
             /\ lResult' = "panic: expect"
    /\ UNCHANGED <<activate_completed, lThread, lStopHandle, lThreads, lStopSignaled>>
    /\ UNCHANGED <<streamVars, notifVars, fmtVars, sinkVars, instVars>>

\* ActivateHandler::ActivateCompleted, called by the platform: the flag is set.
ActivateHandler_ActivateCompleted ==
    /\ lPc = "activating"
    /\ ~activate_completed
    /\ activate_completed' = TRUE
    /\ UNCHANGED <<lPc, lStarts, lResult, lThread, lStopHandle, lThreads, lStopSignaled>>
    /\ UNCHANGED <<streamVars, notifVars, fmtVars, sinkVars, instVars>>

\* The end of both start calls: the stop event is created and stored in
\* _thread_stop_handle, the pump thread is spawned with it, and its handle is
\* stored in _thread, whatever these fields held.
SpawnCapture(id) ==
    /\ lThreads' = [lThreads EXCEPT ![id] = "running"]
    /\ lStopHandle' = id
    /\ lThread' = id

\* start_recording_process once the flag is set: init_loopback_clients and
\* CreateEventW (expect, unwrap: a failure panics), then the spawn.
AudioCapture_start_recording_process_spawn ==
    /\ lPc = "activating"
    /\ activate_completed
    /\ \E ok \in BOOLEAN :
        IF ok
        THEN /\ SpawnCapture(lStarts)
             /\ lPc' = "idle"
             /\ lResult' = "returned"
        ELSE /\ lPc' = "panicked"
             /\ lResult' = "panic: expect"
             /\ UNCHANGED <<lThread, lStopHandle, lThreads>>
    /\ UNCHANGED <<activate_completed, lStarts, lStopSignaled>>
    /\ UNCHANGED <<streamVars, notifVars, fmtVars, sinkVars, instVars>>

\* AudioCapture::start_recording_device: the check of the device's direction,
\* the check of _activate_completed, init_input_clients and CreateEventW
\* (expect, unwrap), then the spawn.  Nothing on this path sets the flag.
AudioCapture_start_recording_device(dev) ==
    /\ lPc = "idle"
    /\ lStarts < MaxStarts
    /\ lStarts' = lStarts + 1
    /\ \E ok \in BOOLEAN :
        IF dev = "playback"
        THEN /\ ok
             /\ lPc' = "panicked"
             /\ lResult' = "panic: not an input device"
             /\ UNCHANGED <<lThread, lStopHandle, lThreads>>
        ELSE IF activate_completed
        THEN /\ ok
             /\ lPc' = "panicked"
             /\ lResult' = "panic: one recording"
             /\ UNCHANGED <<lThread, lStopHandle, lThreads>>
        ELSE IF ok
        THEN /\ SpawnCapture(lStarts')
             /\ lPc' = "idle"
             /\ lResult' = "returned"
        ELSE /\ lPc' = "panicked"
             /\ lResult' = "panic: expect"
             /\ UNCHANGED <<lThread, lStopHandle, lThreads>>
    /\ UNCHANGED <<activate_completed, lStopSignaled>>
    /\ UNCHANGED <<streamVars, notifVars, fmtVars, sinkVars, instVars>>

\* AudioCapture::stop_recording up to the join: SetEvent on the stop event of
\* _thread_stop_handle, if there is one.
AudioCapture_stop_recording ==
    /\ lPc = "idle"
    /\ lStopSignaled' = (IF lStopHandle # 0 THEN lStopSignaled \cup {lStopHandle}
                         ELSE lStopSignaled)
    /\ lPc' = (IF lThread # 0 THEN "joining" ELSE "idle")
    /\ lResult' = (IF lThread # 0 THEN "none" ELSE "returned")
    /\ UNCHANGED <<activate_completed, lStarts, lThread, lStopHandle, lThreads>>
    /\ UNCHANGED <<streamVars, notifVars, fmtVars, sinkVars, instVars>>

\* stop_recording: self._thread.take().map(|thr| thr.join().unwrap()) returns
\* once that thread has ended.
AudioCapture_stop_recording_join ==
    /\ lPc = "joining"
    /\ lThreads[lThread] = "ended"
    /\ lThread' = 0
    /\ lPc' = "idle"
    /\ lResult' = "returned"
    /\ UNCHANGED <<activate_completed, lStarts, lStopHandle, lThreads, lStopSignaled>>
    /\ UNCHANGED <<streamVars, notifVars, fmtVars, sinkVars, instVars>>

\* AudioCapture::capture_audio and the closure around it, for the thread id:
\* the thread ends when its wait returns its stop event (which the wait
\* resets), when the packet-size query fails, or on an error.
AudioCapture_capture_audio(id) ==
    /\ lThreads[id] = "running"
    /\ \E stopped \in BOOLEAN :
        /\ stopped => id \in lStopSignaled
        /\ lStopSignaled' = (IF stopped THEN lStopSignaled \ {id} ELSE lStopSignaled)
    /\ lThreads' = [lThreads EXCEPT ![id] = "ended"]
    /\ UNCHANGED <<activate_completed, lPc, lStarts, lResult, lThread, lStopHandle>>
    /\ UNCHANGED <<streamVars, notifVars, fmtVars, sinkVars, instVars>>

LegacyNext ==
    \/ AudioCapture_start_recording_process
    \/ ActivateHandler_ActivateCompleted
    \/ AudioCapture_start_recording_process_spawn
    \/ \E dev \in {"capture", "playback"} : AudioCapture_start_recording_device(dev)
    \/ AudioCapture_stop_recording
    \/ AudioCapture_stop_recording_join
    \/ \E id \in 1..MaxStarts : AudioCapture_capture_audio(id)

\* One AudioCapture and the threads it spawns.
LegacySpec == Init /\ [][LegacyNext]_vars

(***************************************************************************)
(* Claims.                                                                 *)
(***************************************************************************)
\* An entry point returned err from its direction check and did nothing else.
RejectedWith(err) ==
    /\ callResult = err
    /\ mainPc = "failed"
    /\ ~activationRequested
    /\ activateEvent = "none"
    /\ setupFault = "none"
    /\ clientState = "none"
    /\ streamFormat = NoFormat
    /\ stopHandle = "none"
    /\ pumpPc = "none"
    /\ threadsSpawned = 0

\* C1: a device of the wrong direction is rejected before anything else is done:
\* start_recording_device with a playback device returns NotInputDevice,
\* start_recording_loopback_device and start_playback_device with a capture
\* device return NotPlaybackDevice; no activation is requested, no stream config
\* is produced and no pump thread is spawned.
C1_WrongDirectionRejected ==
    /\ (entry = "device" /\ devArg = "playback") => RejectedWith("NotInputDevice")
    /\ (entry \in {"loopback", "playback"} /\ devArg = "capture")
           => RejectedWith("NotPlaybackDevice")

C1_Witness ==
    /\ entry = "device"
    /\ devArg = "playback"
    /\ callResult = "NotInputDevice"

\* C2: once the stop was requested (the drop signaled the stop event and waits in
\* join), the pump thread terminates and the join returns.
C2_StopLeadsToJoin == (mainPc = "joining") ~> (mainPc = "stopped")

\* What holds of the stop in place of C2: once the platform no longer signals the
\* data-ready event, a requested stop leads to the join returning.  (The wait
\* returns the stop handle only when the data-ready event, at index 0, is not
\* signaled.)
StopLeadsToJoinWhenQuiet == (<>[][~DataReady]_vars) => C2_StopLeadsToJoin

\* C3: after the AudioStream was stopped or dropped its stop-event handle has
\* been closed (once).
C3_StopHandleReleased == mainPc = "stopped" => stopHandle = "closed"

\* C4: no invocation of the capture data callback carries zero frames.
C4_NoZeroFrameCallback == (IsCapture /\ dataCalls > 0) => lastFrames > 0

\* C5: every invocation of the capture data callback receives a view of exactly
\* frames x block_align bytes, frames being the frame count of the buffer just
\* acquired and block_align that of the stream's format; the total delivered is
\* a multiple of block_align.
C5_ViewIsFramesTimesBlockAlign ==
    IsCapture =>
        /\ dataCalls > 0 => lastBytes = lastFrames * block_align(streamFormat)
        /\ \E k \in 0..(MaxCalls * MaxFrames) : totalBytes = k * block_align(streamFormat)

C5_Witness ==
    /\ IsCapture
    /\ dataCalls = MaxCalls
    /\ lastFrames = MaxFrames
    /\ totalBytes > lastBytes
    /\ block_align(streamFormat) > 1

\* C6: the playback pump releases a buffer with the silence flag exactly when the
\* callback returned false for it; if the callback never returned true, no
\* buffer was released without the flag.
C6_SilenceIffInactive ==
    IsPlayback =>
        /\ relCount > 0 => ((lastRelFlags = AUDCLNT_BUFFERFLAGS_SILENT) <=> ~lastRelActive)
        /\ relCount > 0 => lastRelFlags \in {0, AUDCLNT_BUFFERFLAGS_SILENT}
        /\ ~everActive => ~nonSilentRelease

C6_Witness ==
    /\ IsPlayback
    /\ relCount = MaxCalls
    /\ ~everActive
    /\ lastRelFlags = AUDCLNT_BUFFERFLAGS_SILENT

\* The steady-state platform calls of a pump, and the error each is reported as.
SteadyCalls == {"Wait", "GetBuffer", "ReleaseBuffer", "Stop", "Reset"}
SteadyError(call) ==
    CASE call = "Wait" -> "WaitFailed"
      [] call = "GetBuffer" -> "FailedGettingBuffer"
      [] call = "ReleaseBuffer" -> "FailedReleasingBuffer"
      [] call = "Stop" -> "FailedStoppingAudioClient"
      [] call = "Reset" -> "FailedResettingAudioClient"

\* C7: when a steady-state platform call fails in a pump thread, the pump
\* function returns that error, the thread makes no further platform call, and
\* by its end the error callback was invoked exactly once, with that error; the
\* error callback is never invoked more than once.
C7_ErrorCallbackOnce ==
    /\ Len(errLog) <= 1
    /\ \A call \in SteadyCalls :
        call \in pumpFaults =>
            /\ pumpErr = SteadyError(call)
            /\ pumpPc \in {"errcb", "done"}
            /\ pumpPc = "errcb" => errLog = <<>>
            /\ pumpPc = "done" => errLog = <<SteadyError(call)>>

C7_Witness ==
    /\ "ReleaseBuffer" \in pumpFaults
    /\ pumpPc = "done"
    /\ errLog = <<"FailedReleasingBuffer">>
    /\ mainPc = "stopped"

\* The setup-time failures C8 lists.
C8Faults ==
    {"CreateActivateEvent", "ActivateAudioInterfaceAsync", "GetActivateResult", "NoInterface",
     "CastClient", "DeviceActivate", "GetMixFormat", "StreamGetMixFormat", "Initialize",
     "CreateStopEvent"}

\* C8: every setup-time failure is returned as an Err of the starting call, which
\* neither panics nor returns Ok.
C8_SetupFailureIsErr ==
    (setupFault \in C8Faults /\ mainPc # "activating") => callResult \notin {"panic", "Ok", "none"}

\* C9: if no platform call fails, the error callback of a playback or
\* process-capture stream is never invoked (and the pump returns no error).
C9_NoErrorWithoutFailure ==
    (entry \in {"playback", "process"} /\ pumpFaults = {}) =>
        /\ errLog = <<>>
        /\ pumpErr = "none"

C9_Witness ==
    /\ entry = "playback"
    /\ mainPc = "stopped"
    /\ pumpFaults = {}
    /\ setupFault = "none"
    /\ dataCalls = MaxCalls
    /\ ~everActive

\* C10: a config is inert until start(): no pump thread, client not started, no
\* callback invoked.  start() consumes the config and spawns one pump thread, so
\* there is never more than one; if the thread cannot be created it returns
\* FailedToCreateThread.
C10_InertUntilStartOneThread ==
    /\ mainPc \in {"new", "activating", "configured"} =>
        /\ pumpPc = "none"
        /\ threadsSpawned = 0
        /\ clientState # "started"
        /\ dataCalls = 0
        /\ errLog = <<>>
        /\ startResult = "none"
    /\ threadsSpawned <= 1
    /\ startResult = "Ok" <=> threadsSpawned = 1
    /\ (startResult # "none" /\ threadsSpawned = 0) =>
        /\ startResult = "FailedToCreateThread"
        /\ pumpPc = "none"
        /\ mainPc = "failed"

C10_Witness ==
    /\ startResult = "FailedToCreateThread"
    /\ callResult = "Ok"
    /\ clientState = "initialized"

\* C11: get_audio_client fails, returning no client, whenever the platform's
\* activation result is an error HRESULT or no interface is handed back; it
\* returns a client only when the HRESULT is a success and the interface
\* handed back supports the client interface.
C11_ActivationResultChecked ==
    /\ activateResult = "E_FAIL" => ~gotClient
    /\ (mainPc # "activating" /\ setupFault \in {"NoInterface", "CastClient"}) => ~gotClient
    /\ gotClient => activateResult = "S_OK"

\* C12: if the activation's completion signal never fires, get_audio_client does
\* not block forever: its wait fails and the starting call returns WaitFailed,
\* with no pump thread spawned.
C12_ActivationWaitEnds ==
    ([](activateEvent # "signaled")) =>
        ((mainPc = "activating") ~> (callResult = "WaitFailed" /\ threadsSpawned = 0))

\* C13: register_session_event for a session id that is already registered
\* returns NotificationAlreadyRegistered, registers nothing with the platform
\* and leaves the registry unchanged; the registry never holds more than one
\* sink per session id.
C13_DuplicateSessionEventRejected ==
    /\ evCall.wasRegistered =>
        /\ evCall.result = "NotificationAlreadyRegistered"
        /\ evCall.sinksAdded = 0
        /\ ~evCall.registryChanged
    /\ \A s \in Sessions : sessionEventClient[s] <= 1

C13_Witness ==
    /\ evCall.wasRegistered
    /\ evCall.result = "NotificationAlreadyRegistered"
    /\ sessionEventClient[evCall.session] = 1
    /\ eventSinks[evCall.session] = 1
    /\ nOps = 2

\* C14: every command the worker handles is answered by exactly one response,
\* and a call waiting for its response is never left waiting with the worker
\* idle and both channels empty.
C14_EveryCommandAnswered ==
    /\ wLast.cmd # "none" => wLast.responses = 1
    /\ ~(/\ nPc \in {"await_register", "await_unregister"}
         /\ workerPc = "recv"
         /\ cmdQ = <<>>
         /\ respQ = <<>>)

\* C15: when the worker has handled Stop, it has called the platform's
\* unregistration for every entry its table held, the table is empty, its
\* response was Stopped and the thread is ending or has ended, also when an
\* unregister call failed.
C15_StopUnregistersAll ==
    wLast.cmd = "Stop" =>
        /\ wLast.unregisterCalled = wLast.table
        /\ notifications = {}
        /\ wLast.response = "Stopped"
        /\ workerPc \in {"exiting", "exited"}

\* C16: once the drop of a Notifications object has completed, the worker thread
\* has terminated and no session-notification sink registered through the
\* worker is still registered with the platform.
C16_DropLeavesNoSessionSink ==
    nPc = "dropped" =>
        /\ workerPc \in {"none", "exited", "panicked"}
        /\ \A d \in NotifDevices : sessionSinks[d] = 0

\* C17: a platform-call failure in the worker while it handles a command is
\* answered by exactly one Error response, after which the thread ends: it
\* handles no further command and is not started again.
C17_WorkerFailStop ==
    /\ errorsSent <= 1
    /\ errorsSent = 1 => workerFault # "none"
    /\ workerFault # "none" =>
        /\ errorsSent = 1
        /\ workerPc \in {"exiting", "exited"}
        /\ wLast.response = "Error"
        /\ wLast.responses = 1

C17_Witness ==
    /\ workerFault = "GetCount"
    /\ workerPc = "exited"
    /\ nPc = "idle"
    /\ nResult = "FailedRegisteringSessionNotification"
    /\ cmdQ = <<>>
    /\ respQ = <<>>

\* C18: register_session_notification, unregister_session_notification and the
\* drop that follows never panic on a failed send, also after the worker thread
\* has ended because of an earlier error.
C18_NoPanicAfterWorkerEnded == nResult # "panic: SendError"

\* The tag read back stands for the tag converted: the same tag, or the
\* sub-format's tag for an extensible one.
TagEquivalent(tag, back) ==
    \/ back = tag
    \/ tag = "WaveFormatExtensible" /\ back \in {"WaveFormatPcm", "WaveFormatIeeeFloat"}

\* C19: for every SampleFormat, of every tag, the conversion to WAVEFORMATEX and
\* back with from_wave_format_ex does not fail and gives the same channels,
\* sample_rate and bits_per_sample and an equivalent format tag.
C19_RoundTrip ==
    rtResult # NoRoundTrip =>
        /\ ~rtResult.panicked
        /\ rtResult.format.channels = fmtIn.channels
        /\ rtResult.format.sample_rate = fmtIn.sample_rate
        /\ rtResult.format.bits_per_sample = fmtIn.bits_per_sample
        /\ TagEquivalent(fmtIn.format_tag, rtResult.format.format_tag)

\* C20: block_align is channels x bits_per_sample / 8 and avg_bytes_per_sec is
\* sample_rate x block_align as mathematical integers: no result is altered by
\* overflow of the 16-bit or of the 32-bit arithmetic.
\* (A block alignment of 2^16 or more is no u16, and a product with it is above
\* any product with the u16 the code multiplies by.)
C20_NoOverflow ==
    LET align == (fmtIn.channels * fmtIn.bits_per_sample) \div 8
    IN /\ alignResult # -1 => alignResult = align
       /\ avgResult # NoAvg =>
           /\ align < U16
           /\ WideMul(fmtIn.sample_rate, align) =
                  [top |-> 0, hi |-> avgResult.hi, lo |-> avgResult.lo]

\* C21: whenever an entry point has returned a stream config, with or without
\* a format set through set_format, the block_align of the format the stream
\* carries is greater than 0, and no pump hands the callback a zero-length view
\* for a buffer of one frame or more.
C21_BlockAlignPositive ==
    /\ callResult = "Ok" => block_align(streamFormat) > 0
    /\ (dataCalls > 0 /\ lastFrames > 0) => lastBytes > 0

\* C22: the per-session event sink is a passive adapter: for each platform
\* callback kind it invokes the user callback exactly once within that callback,
\* with the event variant of the same kind carrying the platform's arguments,
\* and returns success.
C22_SessionSinkPassiveAdapter ==
    sinkCall.kind # "none" =>
        /\ Len(sinkCall.delivered) = 1
        /\ <<sinkCall.kind, sinkCall.delivered[1].variant>> \in
               {<<"OnDisplayNameChanged", "DisplayNameChanged">>,
                <<"OnIconPathChanged", "IconPathChanged">>,
                <<"OnSimpleVolumeChanged", "SimpleVolumeChanged">>,
                <<"OnChannelVolumeChanged", "ChannelVolumeChanged">>,
                <<"OnGroupingParamChanged", "GroupingParamChanged">>,
                <<"OnStateChanged", "StateChanged">>,
                <<"OnSessionDisconnected", "SessionDisconnected">>}
        /\ sinkCall.delivered[1].args = sinkCall.args
        /\ sinkCall.ret = "Ok"

C22_Witness ==
    /\ sinkCall.kind = "OnStateChanged"
    /\ sinkCall.session = "SessionB"
    /\ sinkCall.args = "args2"
    /\ sinkCall.delivered = <<[variant |-> "StateChanged", args |-> "args2"]>>
    /\ eventSinks["SessionA"] > 0

\* C23: the device-change sink installed by setup_notifications delivers every
\* platform device event to a user-registered callback as the corresponding
\* DeviceNotificationEventArgs variant and returns to the platform without
\* panicking.
C23_DeviceSinkDelivers ==
    devSinkCall.kind # "none" =>
        /\ devSinkCall.ret = "Ok"
        /\ Len(devSinkCall.delivered) = 1
        /\ <<devSinkCall.kind, devSinkCall.delivered[1].variant>> \in
               {<<"OnDefaultDeviceChanged", "DefaultDeviceChanged">>,
                <<"OnDeviceAdded", "DeviceAdded">>,
                <<"OnDeviceRemoved", "DeviceRemoved">>,
                <<"OnDeviceStateChanged", "DeviceStateChanged">>,
                <<"OnPropertyValueChanged", "DevicePropertyValueChanged">>}

\* A conversion, once applied, gave the variant the table pairs its input with,
\* and panicked on an input the table does not hold.
TotalOrPanics(fn, table) ==
    conv[fn].out # "none" =>
        IF \E p \in table : p[1] = conv[fn].input
        THEN <<conv[fn].input, conv[fn].out>> \in table
        ELSE conv[fn].out = "panic"

SessionStateTable ==
    {<<0, "AudioSessionStateInactive">>, <<1, "AudioSessionStateActive">>,
     <<2, "AudioSessionStateExpired">>}

DisconnectReasonTable ==
    {<<0, "DisconnectReasonDeviceRemoval">>, <<1, "DisconnectReasonServerShutdown">>,
     <<2, "DisconnectReasonFormatChanged">>, <<3, "DisconnectReasonSessionLogoff">>,
     <<4, "DisconnectReasonSessionDisconnected">>,
     <<5, "DisconnectReasonExclusiveModeOverride">>}

DeviceStateTable ==
    {<<1, "Active">>, <<2, "Disabled">>, <<4, "NotPresent">>, <<8, "Unplugged">>}

\* C24 as stated: session state 0, 1, 2 map to Inactive, Active, Expired;
\* disconnect reason 0 to 5 map to the six reasons; device state 1, 2, 4, 8 map
\* to Active, Disabled, NotPresent, Unplugged; every other value panics.
C24_Original ==
    /\ TotalOrPanics("StateChangedArgs::get_state", SessionStateTable)
    /\ TotalOrPanics("AudioSessionState::from", SessionStateTable)
    /\ TotalOrPanics("SessionDisconnectedArgs::get_reason", DisconnectReasonTable)
    /\ TotalOrPanics("DeviceState::from", DeviceStateTable)

\* C24, amended: as stated, with the device-state mask 15 (DEVICE_STATEMASK_ALL)
\* mapping to All beside the four states; every other value panics.
C24_DiscriminantsTotalOrPanic ==
    /\ TotalOrPanics("StateChangedArgs::get_state", SessionStateTable)
    /\ TotalOrPanics("AudioSessionState::from", SessionStateTable)
    /\ TotalOrPanics("SessionDisconnectedArgs::get_reason", DisconnectReasonTable)
    /\ TotalOrPanics("DeviceState::from", DeviceStateTable \cup {<<15, "All">>})

C24_Witness ==
    /\ conv["DeviceState::from"] = [input |-> 16, out |-> "panic"]
    /\ conv["StateChangedArgs::get_state"] = [input |-> 3, out |-> "panic"]
    /\ conv["SessionDisconnectedArgs::get_reason"] =
           [input |-> 5, out |-> "DisconnectReasonExclusiveModeOverride"]
    /\ conv["AudioSessionState::from"] = [input |-> -1, out |-> "panic"]

\* C25: t.sub(d) returns None, when the result would underflow, or Some(r) with
\* r the instant exactly d before t: r is not later than t and
\* t.duration_since(r) is d; t.add(d) returns None or the instant exactly d
\* after t.  (No result is out of range for the instants and durations here,
\* so that none is None.)
C25_SubAddExact ==
    LET d == [some |-> TRUE, secs |-> instD.secs, nanos |-> instD.nanos]
    IN /\ subResult # <<>> =>
           /\ subResult[1].some
           /\ ~InstantLess(instT, subResult[1])
           /\ duration_since(instT, subResult[1]) = d
       /\ addResult # <<>> =>
           /\ addResult[1].some
           /\ ~InstantLess(addResult[1], instT)
           /\ duration_since(addResult[1], instT) = d


\* C26: when a pump's wait returns because the stop handle was signaled (the
\* wait resets the stop event), the pump leaves its loop at once, in the
\* capture pump and in the playback pump: that step acquires no buffer and
\* invokes no data callback, and once out of the loop the pump never is at a
\* position of the loop again.
C26_StopLeavesLoop ==
    [][/\ (stopSignaled /\ ~stopSignaled') =>
            /\ pumpPc \in {"c_wait", "p_wait"}
            /\ pumpPc' = (IF pumpPc = "c_wait" THEN "c_stop" ELSE "done")
            /\ pumpErr' = pumpErr
            /\ UNCHANGED <<bufferHeld, bufFrames, dataCalls, lastFrames, lastBytes, relCount>>
       /\ pumpPc \in {"c_stop", "c_reset", "errcb", "done"} =>
            /\ pumpPc' \in {"c_stop", "c_reset", "errcb", "done"}
            /\ UNCHANGED <<bufferHeld, bufFrames, dataCalls, lastFrames, lastBytes, relCount>>
      ]_vars

\* The capture pump is out of its loop after the wait that took the stop signal
\* of drop, with packets delivered before.
C26_Witness ==
    /\ pumpPc = "c_stop"
    /\ mainPc = "joining"
    /\ ~stopSignaled
    /\ "GetNextPacketSize" \notin pumpFaults
    /\ dataCalls > 0
    /\ ~bufferHeld


\* C27: a failed packet-size query of the capture pump is the end of the stream
\* and no error.  From the failed query on the pump is out of its loop, on the
\* way through Stop and Reset to the end of its thread, where its next step is
\* never blocked; no error is returned or
\* reported but that of a Stop or Reset call that failed itself; and when the
\* query is the only call that failed, the thread ends with the client stopped
\* and reset and with the error callback not invoked.
C27_QueryFailureIsEndOfStream ==
    "GetNextPacketSize" \in pumpFaults =>
        /\ pumpPc \in {"c_stop", "c_reset", "errcb", "done"}
        /\ pumpPc # "done" => ENABLED Pump
        /\ pumpPc = "c_stop" => clientState = "started" /\ pumpErr = "none"
        /\ pumpPc = "c_reset" => clientState = "stopped" /\ pumpErr = "none"
        /\ pumpErr \in {"none", "FailedStoppingAudioClient", "FailedResettingAudioClient"}
        /\ pumpErr = "FailedStoppingAudioClient" => "Stop" \in pumpFaults
        /\ pumpErr = "FailedResettingAudioClient" => "Reset" \in pumpFaults
        /\ \A i \in 1..Len(errLog) : errLog[i] = pumpErr
        /\ pumpFaults = {"GetNextPacketSize"} =>
              /\ errLog = <<>>
              /\ pumpErr = "none"
              /\ pumpPc \in {"c_stop", "c_reset", "done"}
              /\ pumpPc = "done" => clientState = "reset"

\* The capture thread has ended after packets were delivered and the query
\* failed: the client is reset and nothing was reported.
C27_Witness ==
    /\ pumpPc = "done"
    /\ pumpFaults = {"GetNextPacketSize"}
    /\ clientState = "reset"
    /\ errLog = <<>>
    /\ dataCalls > 0
    /\ mainPc = "running"


\* C28: whenever the capture pump's thread has ended after the client was
\* started (whether the loop was left by the stop signal, by the end of the
\* stream or by a failed wait, GetBuffer or ReleaseBuffer), Stop and then Reset
\* were called on the client: the client is reset, unless Stop or Reset failed
\* itself, and then that failure is what the error callback was invoked with.
C28_CaptureExitStopsAndResets ==
    (entry \in {"process", "device", "loopback"} /\ pumpPc = "done"
        /\ clientState # "initialized") =>
        \/ clientState = "reset"
        \/ /\ clientState = "started"
           /\ "Stop" \in pumpFaults
           /\ errLog = <<"FailedStoppingAudioClient">>
        \/ /\ clientState = "stopped"
           /\ "Reset" \in pumpFaults
           /\ errLog = <<"FailedResettingAudioClient">>


\* C29: whenever the playback pump's thread has ended after the client was
\* started, the client was stopped and then reset, as by the capture pump: it
\* is reset, unless Stop or Reset failed itself.
C29_PlaybackExitStopsAndResets ==
    (entry = "playback" /\ pumpPc = "done" /\ clientState # "initialized") =>
        \/ clientState = "reset"
        \/ clientState = "started" /\ "Stop" \in pumpFaults
        \/ clientState = "stopped" /\ "Reset" \in pumpFaults

\* C30: the playback pump's wait is a poll that does not block: while no stop
\* is signaled, the pump at its wait can go on to check the padding, whether or
\* not the data event is signaled.
C30_PlaybackWaitIsPoll ==
    (pumpPc = "p_wait" /\ ~stopSignaled) => ENABLED (playback_Wait /\ pumpPc' = "p_padding")


\* C31: in every iteration of the playback pump that is not stopped,
\* available_frames is buffer_size minus the padding the platform reported, a
\* number of 0..buffer_size (no wrap-around); when it is 0 the pump goes back to
\* its wait with no buffer acquired and no callback; otherwise the buffer handed
\* out has available_frames frames, the callback is invoked once, on
\* available_frames * block_align bytes, and available_frames frames are
\* released.  The data callback is invoked by no other step of the playback pump.
C31_PlaybackAvailableFrames ==
    [][entry = "playback" =>
        /\ (pumpPc = "p_padding" /\ pumpPc' \in {"p_wait", "p_getbuf"}) =>
              /\ padding' \in 0..bufferSize
              /\ frames' = bufferSize - padding'
              /\ frames' \in 0..bufferSize
              /\ pumpPc' = (IF frames' = 0 THEN "p_wait" ELSE "p_getbuf")
              /\ UNCHANGED <<bufferHeld, bufFrames, dataCalls, lastBytes, lastFrames, relCount>>
        /\ (pumpPc = "p_getbuf" /\ pumpPc' = "p_callback") =>
              /\ frames = bufferSize - padding /\ frames > 0
              /\ bufFrames' = frames /\ bufferHeld'
              /\ UNCHANGED <<frames, dataCalls, lastBytes, lastFrames, relCount>>
        /\ (pumpPc = "p_callback" /\ pumpPc' # pumpPc) =>
              /\ pumpPc' = "p_release"
              /\ bufferHeld /\ bufFrames = frames /\ frames = bufferSize - padding
              /\ lastFrames' = frames
              /\ lastBytes' = frames * block_align(streamFormat)
              /\ dataCalls' = (IF dataCalls < MaxCalls THEN dataCalls + 1 ELSE dataCalls)
              /\ UNCHANGED <<frames, bufFrames, bufferHeld, relCount>>
        /\ (pumpPc = "p_release" /\ pumpPc' = "p_wait") =>
              /\ lastRelFrames' = frames /\ frames = bufferSize - padding
              /\ lastRelFrames' = lastFrames
              /\ ~bufferHeld'
              /\ UNCHANGED <<dataCalls, lastBytes, lastFrames>>
        /\ (pumpPc # "p_callback" \/ pumpPc' = pumpPc) =>
              UNCHANGED <<dataCalls, lastBytes, lastFrames>>
        /\ (pumpPc # "p_getbuf" \/ pumpPc' = pumpPc) => (bufferHeld' => bufferHeld)
      ]_vars

\* The playback pump is back at its wait after it filled and released a buffer
\* of 1 frame, for a padding of 1 in a buffer of MaxFrames = 2 frames.
C31_Witness ==
    /\ entry = "playback"
    /\ pumpPc = "p_wait"
    /\ bufferSize = MaxFrames
    /\ padding = MaxFrames - 1
    /\ relCount > 0
    /\ lastRelFrames = 1
    /\ lastFrames = 1
    /\ lastBytes = block_align(streamFormat)
    /\ lastBytes > 0


\* C32: the data-ready event a pump creates is closed exactly once on every
\* exit path.  It is closed at most once and not while the pump function runs;
\* once the pump function has returned (by the stop signal, the end of the
\* stream, a failed SetEventHandle or Start, or any pump error) it is closed,
\* once, unless the pump returned before it had created the event.
C32_DataEventClosedOnce ==
    /\ hEventCloses <= 1
    /\ hEventCloses = (IF hEvent = "closed" THEN 1 ELSE 0)
    /\ pumpPc \notin {"none", "errcb", "done"} => hEvent \in {"none", "open"}
    /\ pumpPc \in {"errcb", "done"} =>
          /\ hEvent \in {"none", "closed"}
          /\ hEvent = "none" <=>
                pumpFaults \cap {"GetAudioClock", "GetBufferSize", "CreateEvent"} # {}

\* A pump's thread has ended on a failed audio_client.Start, after it created
\* its event: the event is closed, once.
C32_Witness ==
    /\ pumpPc = "done"
    /\ pumpFaults = {"Start"}
    /\ errLog = <<"FailedToStartAudioClient">>
    /\ hEvent = "closed"
    /\ hEventCloses = 1


\* C33: the callbacks of one stream run one after the other, in the order the
\* buffers arrive.  One thread runs them all; it invokes the data callback only
\* on the buffer it acquired last and holds, with every buffer of an earlier
\* invocation released; it acquires no buffer before the one it holds is
\* released; and the error callback runs only once the pump function has
\* returned, after which the thread ends.
C33_CallbacksSequential ==
    /\ threadsSpawned <= 1
    /\ pumpPc \in {"c_callback", "p_callback"} =>
          /\ bufferHeld
          /\ relCount = dataCalls
          /\ pumpErr = "none" /\ errLog = <<>>
    /\ pumpPc \in {"c_release", "p_release"} =>
          /\ bufferHeld
          /\ lastFrames = bufFrames
          /\ dataCalls = (IF relCount < MaxCalls THEN relCount + 1 ELSE MaxCalls)
          /\ pumpErr = "none" /\ errLog = <<>>
    /\ pumpPc \in {"c_size", "c_wait", "c_getbuf", "p_wait", "p_padding", "p_getbuf"} =>
          /\ ~bufferHeld
          /\ relCount = dataCalls
          /\ pumpErr = "none" /\ errLog = <<>>
    /\ pumpPc = "errcb" => errLog = <<>> /\ pumpErr # "none"
    /\ errLog # <<>> => pumpPc = "done"

\* The second invocation of the capture callback has returned, after the buffer
\* of the first was released.
C33_Witness ==
    /\ pumpPc = "c_release"
    /\ dataCalls = 2
    /\ relCount = 1
    /\ bufferHeld
    /\ lastFrames = bufFrames
    /\ threadsSpawned = 1


C35_CountCallAfterRegistration ==
    [][(workerPc = "recv" /\ cmdQ # <<>> /\ Head(cmdQ).op = "RegisterNotification"
            /\ cmdQ' = Tail(cmdQ)) =>
        LET d == Head(cmdQ).dev
            registeredNow == sessionSinks' = [sessionSinks EXCEPT ![d] = @ + 1]
        IN /\ workerFault = "none"
           /\ wLast'.cmd = "RegisterNotification" /\ wLast'.dev = d
           /\ wLast'.response \in {"NotificationRegistered", "Error"}
           /\ wLast'.response = "NotificationRegistered" <=> workerFault' = "none"
           /\ wLast'.response = "NotificationRegistered" =>
                 /\ registeredNow
                 /\ d \in notifications'
                 /\ respQ' = Append(respQ, "NotificationRegistered")
                 /\ workerPc' = "recv"
           /\ wLast'.response = "Error" =>
                 /\ respQ' = Append(respQ, "Error")
                 /\ workerPc' = "exiting"
           /\ workerFault' = "GetCount" =>
                 /\ registeredNow
                 /\ d \in notifications'
           /\ workerFault' \in {"GetId", "ToString"} =>
                 /\ registeredNow
                 /\ notifications' = notifications
           /\ workerFault' \in {"Activate", "GetSessionEnumerator",
                                "RegisterSessionNotification"} =>
                 /\ sessionSinks' = sessionSinks
                 /\ notifications' = notifications
      ]_vars

\* The worker answered NotificationRegistered for DevA, with the sink registered
\* and the entry stored.
C35_Witness ==
    /\ wLast.cmd = "RegisterNotification"
    /\ wLast.dev = "DevA"
    /\ wLast.response = "NotificationRegistered"
    /\ wLast.table = {}
    /\ sessionSinks["DevA"] = 1
    /\ notifications = {"DevA"}
    /\ workerFault = "none"
    /\ workerPc = "recv"


\* C36: an AudioCapture runs at most one recording: it spawns at most one pump
\* thread, a start call made after a thread was spawned ends in the panic that
\* rejects it, and the handle of every running pump thread is the one the
\* instance holds.
C36_OneRecordingPerInstance ==
    /\ Cardinality({i \in 1..MaxStarts : lThreads[i] # "none"}) <= 1
    /\ \A i \in 1..MaxStarts : lThreads[i] = "running" => lThread = i


\* C37: for every entry point and every choice of set_format, the format the
\* resulting stream carries (which format() reports and from which the pump
\* derives block_align) is the format the client was initialized with, be it as
\* the WAVEFORMATEX the stream's format converts to or as the format that
\* WAVEFORMATEX converts to; for playback it is also the format returned beside
\* the config.
C37_StreamFormatIsClientFormat ==
    callResult = "Ok" =>
        /\ \/ ToWaveFormatEx(streamFormat) = clientFormat
           \/ /\ ~from_wave_format_ex_panics(clientFormat)
              /\ streamFormat = from_wave_format_ex(clientFormat)
        /\ entry = "playback" => returnedFormat = streamFormat


\* C38: a stop signal is never lost: once the stop event is signaled, whatever
\* the pump is doing then, a later wait of the pump returns the stop handle
\* (the only step that resets the event), unless the pump has ended before.
C38_StopSignalReachesWait == stopSignaled ~> (~stopSignaled \/ pumpPc = "done")


\* The pump thread invokes the data callback / the error callback in this step.
DataCallbackStep == pumpPc \in {"c_callback", "p_callback"} /\ pumpPc' # pumpPc

ErrorCallbackStep == pumpPc = "errcb" /\ pumpPc' # pumpPc

\* C39: after the drop of the stream (stop_recording) has returned, neither the
\* data callback nor the error callback is invoked again; and once the error
\* callback has been invoked, the data callback is never invoked again.
C39_NoCallbackAfterStop ==
    [][/\ mainPc = "stopped" => (~DataCallbackStep /\ ~ErrorCallbackStep)
       /\ errLog # <<>> => ~DataCallbackStep]_vars

C39_Witness ==
    /\ mainPc = "stopped"
    /\ dataCalls > 0
    /\ errLog # <<>>


\* C40: whenever the worker waits for its next command, its table holds exactly
\* the sinks it has registered with the platform and not yet unregistered: each
\* device in the table has one registered sink and no other device has any.
C40_TableMatchesRegisteredSinks ==
    workerPc = "recv" =>
        \A d \in NotifDevices : sessionSinks[d] = (IF d \in notifications THEN 1 ELSE 0)

=============================================================================
